---------------------------- MODULE Spec2Model ----------------------------
(***************************************************************************)
(* State-machine model of the software GPU core: the vertex shader         *)
(* interpreter (Pica::VertexShader), the GPU register file with its        *)
(* trigger registers (GPU::Read / GPU::Write) and the triangle rasterizer  *)
(* (Pica::Rasterizer::ProcessTriangle).                                    *)
(*                                                                         *)
(* and of the DSP service's ReadPipeIfPossible.                            *)
(*                                                                         *)
(* The specifications share the variables:                                 *)
(*   VsSpec      shader upload and one RunShader call, one instruction     *)
(*               of ProcessShaderCode per step;                            *)
(*   GpuSpec     sequences of GPU::Read / GPU::Write calls;                *)
(*   RasterSpec  sequences of ProcessTriangle calls;                       *)
(*   UpdateSpec  sequences of GPU::Update calls as the clock advances;     *)
(*   PixelFnSpec one call of a per-pixel function of the rasterizer;       *)
(*   ResetSpec   register writes and shader uploads followed by GPU::Init; *)
(*   DspSpec     sequences of ReadPipeIfPossible calls;                    *)
(*   TevSpec     ProcessTriangle calls under register settings that vary   *)
(*               the texture units and the six combiner stages.            *)
(***************************************************************************)
EXTENDS Integers, Sequences, FiniteSets, TLC

VARIABLES
    \* --- vertex shader ---
    shader_memory,      \* u32 shader_memory[1024], sparse: unwritten words are 0
    swizzle_data,       \* u32 swizzle_data[1024], sparse: unwritten words are 0
    shader_uniforms,    \* shader_uniforms.f[96], sparse: unwritten are (0,0,0,0)
    registers,          \* Pica::registers (the fields the model reads)
    vs_status,          \* "idle" | "running" | "done" | "undefined"
    state,              \* VertexShaderState of the running RunShader call
    input,              \* the InputVertex and num_attributes of the call
    dummy_register,     \* float24 dummy_register (uninitialised local)
    ret,                \* OutputVertex ret, as 32 float24 lanes
    vs_ub,              \* the undefined behaviour the run hit, or "none"
    submits,            \* number of Submit*Change calls made
    pc_trace,           \* history: the first TraceLen program counters executed
    call_sites,         \* history: addresses of the CALLs not yet returned from
    last_instr,         \* history: the instruction executed by the last step
    \* --- GPU register file ---
    g_regs,             \* GPU::g_regs, sparse: unwritten words are 0
    memory,             \* guest memory, as 32-bit words indexed by paddr / 4
    last_access,        \* history: the last Read / Write call and its outcome
    effects,            \* history: side effects in the order they happened
    g_cur_line,         \* u32 g_cur_line, the current vertical screen line
    g_last_line_ticks,  \* u64 g_last_line_ticks, tick count at the last line
    current_ticks,      \* the clock behind Core::g_app_core->GetTicks()
    last_update,        \* history: the last Update call and what it saw
    \* --- rasterizer ---
    color_buffer,       \* u32 colour words at color_buffer + x + y * width
    depth_buffer,       \* u16 depth words at depth_buffer + x + y * width
    draw_log,           \* history: DrawPixel calls of the last ProcessTriangle
    last_tri,           \* history: the last triangle and its derived values
    last_cover,         \* history: per sample, what the last covering triangle produced
    num_tris,           \* number of ProcessTriangle calls made
    fn_call,            \* a call of one of the per-pixel functions: name and arguments
    fn_result,          \* <<>> while the call is pending, then <<value>>
    \* --- DSP service ---
    read_pipe_count,    \* static u32 read_pipe_count
    cmd_buff,           \* the service command buffer, sparse: unwritten words are 0
    last_pipe_read      \* history: the last ReadPipeIfPossible call and its stores

vs_vars == <<shader_memory, swizzle_data, shader_uniforms, registers, vs_status,
             state, input, dummy_register, ret, vs_ub, submits, pc_trace,
             call_sites, last_instr>>
gpu_vars == <<g_regs, memory, last_access, effects, g_cur_line, g_last_line_ticks,
              current_ticks, last_update>>
raster_vars == <<color_buffer, depth_buffer, draw_log, last_tri, last_cover, num_tris,
                 fn_call, fn_result>>
dsp_vars == <<read_pipe_count, cmd_buff, last_pipe_read>>
vars == <<vs_vars, gpu_vars, raster_vars, dsp_vars>>

---------------------------------------------------------------------------
(* Bounds of the model *)

MaxSubmits == 1
TraceLen == 6
MaxAccesses == 2
GuestBytes == 48

---------------------------------------------------------------------------
(* Generic helpers *)

Max(a, b) == IF a >= b THEN a ELSE b
Min(a, b) == IF a <= b THEN a ELSE b
Abs(a) == IF a < 0 THEN -a ELSE a
Sgn(a) == IF a > 0 THEN 1 ELSE IF a < 0 THEN -1 ELSE 0

\* The element of a one-element set.  The({e(x) : x \in {v}}) evaluates v once,
\* however often e uses it.
The(S) == CHOOSE r \in S : TRUE

RECURSIVE GCD(_, _)
GCD(a, b) == IF b = 0 THEN a ELSE The({GCD(b, r) : r \in {a % b}})

\* A sparse zero-initialised array: the word at index i.
Word(arr, i, zero) == IF i \in DOMAIN arr THEN arr[i] ELSE zero

---------------------------------------------------------------------------
(* float24.  At this revision float24 wraps a host float; the model keeps  *)
(* a value as an exact fraction <<n, d>> in lowest terms with d >= 0.      *)
(* <<1,0>> and <<-1,0>> are the infinities and <<0,0>> is NaN, so division *)
(* by zero yields a value and never traps, as IEEE arithmetic does.        *)
(* Rounding to the float's mantissa is not modelled.                       *)

Norm(n, d) ==
    IF d = 0 THEN <<Sgn(n), 0>>
    ELSE LET g == GCD(Abs(n), Abs(d))
             s == IF d < 0 THEN -1 ELSE 1
         IN <<(s * n) \div g, (s * d) \div g>>

FromFloat32(n) == <<n, 1>>
FAdd(a, b) ==
    The({IF x[2] = 0 /\ y[2] = 0
         THEN (IF x[1] = y[1] THEN x ELSE <<0, 0>>)
         ELSE Norm(x[1] * y[2] + y[1] * x[2], x[2] * y[2]) : x \in {a}, y \in {b}})
FMul(a, b) == The({Norm(x[1] * y[1], x[2] * y[2]) : x \in {a}, y \in {b}})
FDiv(a, b) ==
    The({IF y[2] = 0 /\ x[2] = 0 THEN <<0, 0>>
         ELSE IF y[1] < 0 THEN Norm(-(x[1] * y[2]), -(x[2] * y[1]))
         ELSE Norm(x[1] * y[2], x[2] * y[1]) : x \in {a}, y \in {b}})
FZero == FromFloat32(0)

Vec4(a, b, c, d) == (0 :> a) @@ (1 :> b) @@ (2 :> c) @@ (3 :> d)
Lanes == 0 .. 3

---------------------------------------------------------------------------
(* Vertex shader: memories and instruction decoding                        *)

ShaderMemoryWords == 1024
SwizzleDataWords == 1024
NumFloatUniforms == 96
INVALID_ADDRESS == -1      \* 0xFFFFFFFF; never used in arithmetic
CallStackSize == 8
NumOutputLanes == 32       \* sizeof(OutputVertex) / sizeof(float24)

\* An instruction word, by the bit fields the interpreter reads from it.
\* (The common and flow_control views overlay the same word; the model keeps
\* the fields side by side.)
Instr(op, dest, src1, src2, desc, dest_offset) ==
    [opcode |-> op, dest |-> dest, src1 |-> src1, src2 |-> src2,
     operand_desc_id |-> desc, dest_offset |-> dest_offset]

\* A zero word: opcode 0x00 is ADD, every field 0.
ZeroInstr == Instr("ADD", 0, 0, 0, 0, 0)

\* A swizzle pattern word.  dest_mask is the set of enabled lanes.
Swizzle(mask, sel1, sel2, neg1, neg2) ==
    [dest_mask |-> mask, selector_src1 |-> sel1, selector_src2 |-> sel2,
     negate_src1 |-> neg1, negate_src2 |-> neg2]

ZeroSwizzle == Swizzle({}, Vec4(0, 0, 0, 0), Vec4(0, 0, 0, 0), FALSE, FALSE)
ZeroVec == Vec4(FZero, FZero, FZero, FZero)

\* Pointers are a base object and a lane offset into it.
Ptr(base, off) == [base |-> base, off |-> off]
NullPtr == Ptr("null", 0)

\* SourceRegister::GetRegisterType / GetIndex
RegisterType(v) ==
    IF v < 16 THEN "Input" ELSE IF v < 32 THEN "Temporary" ELSE "FloatUniform"
RegisterIndex(v) == IF v < 16 THEN v ELSE IF v < 32 THEN v - 16 ELSE v - 32

LookupSourceRegister(st, source_reg) ==
    CASE RegisterType(source_reg) = "Input" ->
            st.input_register_table[RegisterIndex(source_reg)]
      [] RegisterType(source_reg) = "Temporary" ->
            Ptr("temp", 4 * RegisterIndex(source_reg))
      [] OTHER -> Ptr("uniform", 4 * RegisterIndex(source_reg))

\* float24* dest = (dest < 0x08) ? output_register_table[4*index]
\*               : (dest < 0x10) ? nullptr
\*               : (dest < 0x20) ? &temporary_registers[index][0] : nullptr
LookupDest(st, dest) ==
    IF dest < 8
    THEN (IF 4 * dest \in DOMAIN st.output_register_table
          THEN Ptr("ret", st.output_register_table[4 * dest])
          ELSE Ptr("wild", 0))     \* o7: the table has 7 * 4 entries
    ELSE IF dest < 16 THEN NullPtr
    ELSE IF dest < 32 THEN Ptr("temp", 4 * (dest - 16))
    ELSE NullPtr

\* ptr[i] as an rvalue
Load(st, ptr, i) ==
    LET l == ptr.off + i IN
    CASE ptr.base = "attr" -> input.attr[l \div 4][l % 4]
      [] ptr.base = "temp" -> st.temporary_registers[l \div 4][l % 4]
      [] ptr.base = "uniform" -> Word(shader_uniforms, l \div 4, ZeroVec)[l % 4]
      [] OTHER -> dummy_register[l]

\* swizzle.DestComponentEnabled(i)
DestComponentEnabled(swizzle, i) == i \in swizzle.dest_mask

\* float24 src1[4] = { src1_[selector(0)], ... }, negated when negate_src1
Src1(st, instr, swizzle) ==
    LET p == LookupSourceRegister(st, instr.src1)
        v == [i \in Lanes |-> Load(st, p, swizzle.selector_src1[i])]
    IN IF swizzle.negate_src1
       THEN [i \in Lanes |-> FMul(v[i], FromFloat32(-1))]
       ELSE v

\* const float24 src2[4] = { src2_[selector(0)], ... }
Src2(st, instr, swizzle) ==
    LET p == LookupSourceRegister(st, instr.src2)
    IN [i \in Lanes |-> Load(st, p, swizzle.selector_src2[i])]

\* for (i < num_components) dot = dot + src1[i] * src2[i]
RECURSIVE Dot(_, _, _)
Dot(src1, src2, n) ==
    IF n = 0 THEN FromFloat32(0)
    ELSE FAdd(Dot(src1, src2, n - 1), FMul(src1[n - 1], src2[n - 1]))

ISqrt(x) == CHOOSE k \in 0 .. x : k * k <= x /\ (k + 1) * (k + 1) > x
\* sqrt of a float; irrational roots are rounded down to a multiple of 1/d
FSqrt(a) ==
    IF a[2] = 0 THEN (IF a[1] > 0 THEN a ELSE <<0, 0>>)
    ELSE IF a[1] < 0 THEN <<0, 0>>
    ELSE Norm(ISqrt(a[1] * a[2]), a[2])

NumComponents(opcode) == IF opcode = "DP3" THEN 3 ELSE 4

\* Faulty variant: MAX is executed like a MOV.
ArithmeticOpsAndMax == {"ADD", "MUL", "DP3", "DP4", "RCP", "RSQ", "MOV", "MAX"}

ArithmeticOps == {"ADD", "MUL", "DP3", "DP4", "RCP", "RSQ", "MOV"}

\* The lanes i for which the opcode's loop reaches  dest[i] = ...
WrittenLanes(opcode, swizzle) ==
    {i \in 0 .. NumComponents(opcode) - 1 : DestComponentEnabled(swizzle, i)}

\* Mutant: MOV copies lane 0 of the source to every lane.
LaneValueMovBroadcast(opcode, src1, src2, i) ==
    CASE opcode = "ADD" -> FAdd(src1[i], src2[i])
      [] opcode = "MUL" -> FMul(src1[i], src2[i])
      [] opcode \in {"DP3", "DP4"} -> Dot(src1, src2, NumComponents(opcode))
      [] opcode = "RCP" -> FDiv(FromFloat32(1), src1[i])
      [] opcode = "RSQ" -> FDiv(FromFloat32(1), FSqrt(src1[i]))
      [] OTHER -> src1[0]

\* The value the opcode stores to dest[i]
LaneValue(opcode, src1, src2, i) ==
    CASE opcode = "ADD" -> FAdd(src1[i], src2[i])
      [] opcode = "MUL" -> FMul(src1[i], src2[i])
      [] opcode \in {"DP3", "DP4"} -> Dot(src1, src2, NumComponents(opcode))
      [] opcode = "RCP" -> FDiv(FromFloat32(1), src1[i])
      [] opcode = "RSQ" -> FDiv(FromFloat32(1), FSqrt(src1[i]))
      [] OTHER -> src1[i]

\* Whether the store dest[i] stays inside the object dest points into.
StoreInBounds(ptr, i) ==
    CASE ptr.base = "ret" -> ptr.off + i < NumOutputLanes
      [] ptr.base = "temp" -> TRUE
      [] OTHER -> FALSE

\* Mutant: CALL saves the address of the next instruction.
PushedAddressNext(pc) == pc + 1

\* Faulty variant: CALL saves the address of the instruction before it.
PushedAddressPrevious(pc) == pc - 1

\* *++call_stack_pointer = program_counter - shader_memory
PushedAddress(pc) == pc

\* Faulty variant: END resumes at the popped address itself.
ResumeAddressNoIncrement(top) == top

\* END with a return address: program_counter = &shader_memory[top], and the
\* ++state.program_counter at the end of the iteration (increment_pc is true)
ResumeAddress(top) == top + 1

\* _dbg_assert_(state.call_stack_pointer - state.call_stack < sizeof(state.call_stack))
CallStackAssert(csp) == csp < 4 * CallStackSize

---------------------------------------------------------------------------
(* Vertex shader: SubmitShaderMemoryChange, SubmitSwizzleDataChange,       *)
(* RunShader and ProcessShaderCode                                         *)

NoState ==
    [program_counter |-> 0,
     input_register_table |-> [r \in 0 .. 15 |-> NullPtr],
     output_register_table |-> [k \in 0 .. 27 |-> 0],
     temporary_registers |-> [r \in 0 .. 15 |-> ZeroVec],
     status_registers |-> [k \in 0 .. 1 |-> FALSE],
     call_stack |-> [k \in 0 .. CallStackSize - 1 |-> INVALID_ADDRESS],
     call_stack_pointer |-> 0,
     debug |-> [max_offset |-> 0, max_opdesc_id |-> 0]]

NoInstr == [pc |-> -1, instr |-> ZeroInstr, swizzle |-> ZeroSwizzle,
            dest |-> NullPtr, resumed_from |-> -1]

\* Words the host may submit after the initial upload, and where.
SubmitAddrs == {1, ShaderMemoryWords - 1, ShaderMemoryWords}
SubmitInstrs == {Instr("END", 0, 0, 0, 0, 0), Instr("NOP", 0, 0, 0, 0, 0),
                 Instr("MAX", 0, 0, 0, 0, 0)}
SubmitSwizzleAddrs == {0, SwizzleDataWords}
SubmitSwizzles == {Swizzle({1, 2}, Vec4(3, 2, 1, 0), Vec4(0, 0, 0, 0), TRUE, FALSE)}

\* shader_memory[addr] = value;   (no check of addr)
SubmitShaderMemoryChange(addr, value) ==
    /\ vs_status = "idle"
    /\ submits < MaxSubmits
    /\ submits' = submits + 1
    /\ IF addr < ShaderMemoryWords
       THEN /\ shader_memory' = (addr :> value) @@ shader_memory
            /\ UNCHANGED <<vs_status, vs_ub>>
       ELSE /\ vs_status' = "undefined"
            /\ vs_ub' = "shader_memory_write"
            /\ UNCHANGED shader_memory
    /\ UNCHANGED <<swizzle_data, shader_uniforms, registers, state, input,
                   dummy_register, ret, pc_trace, call_sites, last_instr>>
    /\ UNCHANGED <<gpu_vars, raster_vars, dsp_vars>>

\* swizzle_data[addr] = value;   (no check of addr)
SubmitSwizzleDataChange(addr, value) ==
    /\ vs_status = "idle"
    /\ submits < MaxSubmits
    /\ submits' = submits + 1
    /\ IF addr < SwizzleDataWords
       THEN /\ swizzle_data' = (addr :> value) @@ swizzle_data
            /\ UNCHANGED <<vs_status, vs_ub>>
       ELSE /\ vs_status' = "undefined"
            /\ vs_ub' = "swizzle_data_write"
            /\ UNCHANGED swizzle_data
    /\ UNCHANGED <<shader_memory, shader_uniforms, registers, state, input,
                   dummy_register, ret, pc_trace, call_sites, last_instr>>
    /\ UNCHANGED <<gpu_vars, raster_vars, dsp_vars>>

\* The input register table after the sixteen conditional assignments: slot r
\* points at the last attribute i < num_attributes mapped to r, else at dummy.
InputRegisterTable(map, num_attributes) ==
    [r \in 0 .. 15 |->
        LET hits == {i \in 0 .. 15 : i < num_attributes /\ map[i] = r}
        IN IF hits = {} THEN Ptr("dummy", 0)
           ELSE Ptr("attr", 4 * (CHOOSE i \in hits : \A j \in hits : j <= i))]

\* output_register_table[4*i+comp] = ((float24*)&ret) + semantics[comp]
OutputRegisterTable(attrs) ==
    [k \in 0 .. 27 |-> attrs[k \div 4][k % 4]]

\* OutputVertex RunShader(const InputVertex& input, int num_attributes),
\* up to the call of ProcessShaderCode.  Uninitialised locals (the temporary
\* registers, dummy_register and the stack after it, ret) hold garbage.
RunShader(in, num_attributes, garbage) ==
    /\ vs_status = "idle"
    /\ vs_status' = "running"
    /\ input' = [attr |-> in, num_attributes |-> num_attributes]
    /\ dummy_register' = [l \in Lanes |-> garbage]
    /\ ret' = [l \in 0 .. NumOutputLanes - 1 |-> garbage]
    /\ state' =
         [program_counter |-> registers.vs_main_offset,
          input_register_table |->
              InputRegisterTable(registers.vs_input_register_map, num_attributes),
          output_register_table |-> OutputRegisterTable(registers.vs_output_attributes),
          temporary_registers |-> [r \in 0 .. 15 |-> [l \in Lanes |-> garbage]],
          status_registers |-> [k \in 0 .. 1 |-> FALSE],
          call_stack |-> [k \in 0 .. CallStackSize - 1 |-> INVALID_ADDRESS],
          call_stack_pointer |-> 0,
          debug |-> [max_offset |-> 0, max_opdesc_id |-> 0]]
    /\ pc_trace' = <<>>
    /\ call_sites' = <<>>
    /\ last_instr' = NoInstr
    /\ UNCHANGED <<shader_memory, swizzle_data, shader_uniforms, registers,
                   vs_ub, submits>>
    /\ UNCHANGED <<gpu_vars, raster_vars, dsp_vars>>

\* The stores of an arithmetic opcode:  dest[i] = value  for every written lane
StoreRet(ptr, lanes, val) ==
    [l \in 0 .. NumOutputLanes - 1 |->
        IF ptr.base = "ret" /\ (l - ptr.off) \in lanes THEN val[l - ptr.off] ELSE ret[l]]

StoreTemp(st, ptr, lanes, val) ==
    [r \in 0 .. 15 |-> [l \in Lanes |->
        IF ptr.base = "temp" /\ (4 * r + l - ptr.off) \in lanes
        THEN val[4 * r + l - ptr.off]
        ELSE st.temporary_registers[r][l]]]

\* One iteration of the while (true) loop of ProcessShaderCode.
ProcessShaderCode ==
    /\ vs_status = "running"
    /\ LET pc == state.program_counter IN
       IF pc >= ShaderMemoryWords
       THEN \* the instruction fetch reads past shader_memory
            /\ vs_status' = "undefined"
            /\ vs_ub' = "shader_memory_read"
            /\ UNCHANGED <<state, ret, pc_trace, call_sites, last_instr>>
       ELSE
       LET instr == Word(shader_memory, pc, ZeroInstr)
           swizzle == Word(swizzle_data, instr.operand_desc_id, ZeroSwizzle)
           src1 == Src1(state, instr, swizzle)
           src2 == Src2(state, instr, swizzle)
           dest == LookupDest(state, instr.dest)
           op == instr.opcode
           dbg1 == [state.debug EXCEPT !.max_offset = Max(@, 1 + pc)]
           lanes == WrittenLanes(op, swizzle)
           val == [i \in Lanes |-> LaneValue(op, src1, src2, i)]
           csp == state.call_stack_pointer
           top == state.call_stack[csp]
           hist(resumed) == [pc |-> pc, instr |-> instr, swizzle |-> swizzle,
                             dest |-> dest, resumed_from |-> resumed]
       IN
       /\ pc_trace' = IF Len(pc_trace) < TraceLen THEN Append(pc_trace, pc) ELSE pc_trace
       /\ CASE op \in ArithmeticOps ->
                 IF \E i \in lanes : ~StoreInBounds(dest, i)
                 THEN /\ vs_status' = "undefined"
                      /\ vs_ub' = "dest_store"
                      /\ last_instr' = hist(-1)
                      /\ UNCHANGED <<state, ret, call_sites>>
                 ELSE /\ ret' = StoreRet(dest, lanes, val)
                      /\ state' = [state EXCEPT
                            !.temporary_registers = StoreTemp(state, dest, lanes, val),
                            !.debug = [dbg1 EXCEPT !.max_opdesc_id =
                                           Max(@, 1 + instr.operand_desc_id)],
                            !.program_counter = pc + 1]
                      /\ last_instr' = hist(-1)
                      /\ UNCHANGED <<vs_status, vs_ub, call_sites>>
            [] op = "END" ->
                 IF top = INVALID_ADDRESS
                 THEN \* exit_loop; increment_pc is still applied
                      /\ vs_status' = "done"
                      /\ state' = [state EXCEPT !.debug = dbg1,
                                                !.program_counter = pc + 1]
                      /\ last_instr' = hist(-1)
                      /\ UNCHANGED <<ret, vs_ub, call_sites>>
                 ELSE \* program_counter = &shader_memory[top]; *csp-- = INVALID;
                      \* then ++program_counter
                      /\ state' = [state EXCEPT
                            !.debug = dbg1,
                            !.program_counter = ResumeAddress(top),
                            !.call_stack = [@ EXCEPT ![csp] = INVALID_ADDRESS],
                            !.call_stack_pointer = csp - 1]
                      /\ last_instr' = hist(Head(call_sites))
                      /\ call_sites' = Tail(call_sites)
                      /\ UNCHANGED <<ret, vs_status, vs_ub>>
            [] op = "CALL" ->
                 IF ~CallStackAssert(csp)
                 THEN /\ vs_status' = "undefined"
                      /\ vs_ub' = "assert"
                      /\ last_instr' = hist(-1)
                      /\ UNCHANGED <<state, ret, call_sites>>
                 ELSE IF csp + 1 >= CallStackSize
                 THEN \* *++call_stack_pointer writes past call_stack[7]
                      /\ vs_status' = "undefined"
                      /\ vs_ub' = "call_stack_write"
                      /\ state' = [state EXCEPT !.debug = dbg1,
                                                !.call_stack_pointer = csp + 1]
                      /\ last_instr' = hist(-1)
                      /\ UNCHANGED <<ret, call_sites>>
                 ELSE /\ state' = [state EXCEPT
                            !.debug = dbg1,
                            !.call_stack = [@ EXCEPT ![csp + 1] = PushedAddress(pc)],
                            !.call_stack_pointer = csp + 1,
                            !.program_counter = instr.dest_offset]
                      /\ call_sites' = <<pc>> \o call_sites
                      /\ last_instr' = hist(-1)
                      /\ UNCHANGED <<ret, vs_status, vs_ub>>
            [] OTHER -> \* NOP, and the default: case
                 /\ state' = [state EXCEPT !.debug = dbg1, !.program_counter = pc + 1]
                 /\ last_instr' = hist(-1)
                 /\ UNCHANGED <<ret, vs_status, vs_ub, call_sites>>
    /\ UNCHANGED <<shader_memory, swizzle_data, shader_uniforms, registers,
                   input, dummy_register, submits>>
    /\ UNCHANGED <<gpu_vars, raster_vars, dsp_vars>>

---------------------------------------------------------------------------
(* Vertex shader: the shader images, register settings and vertices the    *)
(* runs are drawn from                                                     *)

IdSel == Vec4(0, 1, 2, 3)
AllLanes == {0, 1, 2, 3}
Nop == Instr("NOP", 0, 0, 0, 0, 0)
End == Instr("END", 0, 0, 0, 0, 0)
Call(dest_offset) == Instr("CALL", 0, 0, 0, 0, dest_offset)

\* MOV o0, v0 ; END
ProgMov ==
    [shader |-> (0 :> Instr("MOV", 0, 0, 0, 0, 0)) @@ (1 :> End),
     swizzle |-> (0 :> Swizzle(AllLanes, IdSel, IdSel, FALSE, FALSE))]

\* CALL 3 ; END ; <3:> MOV o0.x, v0.x ; END
ProgCallEnd ==
    [shader |-> (0 :> Call(3)) @@ (1 :> End)
                @@ (3 :> Instr("MOV", 0, 0, 0, 1, 0)) @@ (4 :> End),
     swizzle |-> (1 :> Swizzle({0}, IdSel, IdSel, FALSE, FALSE))]

\* NOP ; CALL 4 ; MOV o1, c0 ; END ; <4:> MOV r1, v0 ; END
ProgCallLate ==
    [shader |-> (0 :> Nop) @@ (1 :> Call(4)) @@ (2 :> Instr("MOV", 1, 32, 0, 0, 0))
                @@ (3 :> End) @@ (4 :> Instr("MOV", 17, 0, 0, 0, 0)) @@ (5 :> End),
     swizzle |-> (0 :> Swizzle(AllLanes, IdSel, IdSel, FALSE, FALSE))]

\* <0:> CALL 0     (unbounded recursion)
ProgRecurse == [shader |-> (0 :> Call(0)), swizzle |-> <<>>]

\* <k:> CALL k+1 for k < depth ; <depth:> END
ProgNest(depth) ==
    [shader |-> [k \in 0 .. depth |-> IF k < depth THEN Call(k + 1) ELSE End],
     swizzle |-> <<>>]

\* op1 r0, v0, v1 ; op2 o0, v0, r0 ; END   with masks m1, m2
ProgArith(op1, op2, m1, m2) ==
    [shader |-> (0 :> Instr(op1, 16, 0, 1, 2, 0)) @@ (1 :> Instr(op2, 0, 0, 16, 3, 0))
                @@ (2 :> End),
     swizzle |-> (2 :> Swizzle(m1, IdSel, Vec4(1, 0, 3, 2), FALSE, FALSE))
                 @@ (3 :> Swizzle(m2, Vec4(3, 3, 0, 1), IdSel, TRUE, FALSE))]

\* op o0, v0, v0 ; op r2, c0, v1 ; op o9, v0, v0 ; END
ProgUnary(op, m) ==
    [shader |-> (0 :> Instr(op, 0, 0, 0, 0, 0)) @@ (1 :> Instr(op, 18, 32, 1, 0, 0))
                @@ (2 :> Instr(op, 9, 0, 0, 1, 0)) @@ (3 :> End),
     swizzle |-> (0 :> Swizzle(m, IdSel, IdSel, FALSE, FALSE))
                 @@ (1 :> Swizzle({}, IdSel, IdSel, FALSE, FALSE))]

\* MOV <dest>, v0 ; END   with every lane enabled
ProgDest(dest) ==
    [shader |-> (0 :> Instr("MOV", dest, 0, 0, 0, 0)) @@ (1 :> End),
     swizzle |-> (0 :> Swizzle(AllLanes, IdSel, IdSel, FALSE, FALSE))]

Masks == {{}, {1}, {0, 3}, AllLanes}

Programs ==
    {ProgMov, ProgCallEnd, ProgCallLate, ProgRecurse,
     ProgNest(CallStackSize - 1), ProgNest(CallStackSize)}
    \cup {ProgArith("ADD", "MUL", m, AllLanes \ m) : m \in Masks}
    \cup {ProgArith("MUL", "ADD", m, m) : m \in Masks}
    \cup {ProgUnary(op, {0, 1, 3}) : op \in {"DP3", "DP4", "RCP", "RSQ"}}
    \cup {ProgDest(8), ProgDest(32)}

\* vs_output_attributes[i].map_{x,y,z,w}: position, colour, texcoord0, unused
SemInvalid == 31
OutputMapIdentity ==
    [a \in 0 .. 6 |->
        CASE a = 0 -> Vec4(0, 1, 2, 3)
          [] a = 1 -> Vec4(8, 9, 10, 11)
          [] a = 2 -> Vec4(12, 13, SemInvalid, SemInvalid)
          [] OTHER -> Vec4(SemInvalid, SemInvalid, SemInvalid, SemInvalid)]
OutputMapMixed ==
    [a \in 0 .. 6 |->
        CASE a = 0 -> Vec4(8, 1, 12, 3)
          [] a = 1 -> Vec4(0, 9, 2, 11)
          [] OTHER -> Vec4(SemInvalid, SemInvalid, SemInvalid, SemInvalid)]

InputMapIdentity == [i \in 0 .. 15 |-> i]
InputMapSwapped == [i \in 0 .. 15 |-> IF i = 0 THEN 1 ELSE IF i = 1 THEN 0 ELSE i]

VsRegisterSettings ==
    {[vs_main_offset |-> 0, vs_input_register_map |-> InputMapIdentity,
      vs_output_attributes |-> OutputMapIdentity],
     [vs_main_offset |-> 0, vs_input_register_map |-> InputMapSwapped,
      vs_output_attributes |-> OutputMapMixed],
     [vs_main_offset |-> ShaderMemoryWords - 3, vs_input_register_map |-> InputMapIdentity,
      vs_output_attributes |-> OutputMapIdentity]}

F(n) == FromFloat32(n)
InputVertices ==
    {[i \in 0 .. 15 |->
        CASE i = 0 -> Vec4(F(1), F(2), F(3), F(4))
          [] i = 1 -> Vec4(F(2), F(0), F(-1), F(5))
          [] OTHER -> ZeroVec],
     [i \in 0 .. 15 |->
        CASE i = 0 -> Vec4(F(0), F(-3), <<1, 2>>, F(4))
          [] i = 1 -> Vec4(F(1), F(1), F(2), F(9))
          [] OTHER -> ZeroVec]}

Garbage == {F(0), F(77)}
UniformSettings == {<<>>, (0 :> Vec4(F(6), F(0), F(4), <<1, 4>>))}

VsInit ==
    /\ \E p \in Programs : shader_memory = p.shader /\ swizzle_data = p.swizzle
    /\ shader_uniforms \in UniformSettings
    /\ \E r \in VsRegisterSettings : registers = r
    /\ vs_status = "idle"
    /\ state = NoState
    /\ input = [attr |-> [i \in 0 .. 15 |-> ZeroVec], num_attributes |-> 0]
    /\ dummy_register = [l \in Lanes |-> FZero]
    /\ ret = [l \in 0 .. NumOutputLanes - 1 |-> FZero]
    /\ vs_ub = "none"
    /\ submits = 0
    /\ pc_trace = <<>>
    /\ call_sites = <<>>
    /\ last_instr = NoInstr
    /\ g_regs = <<>>
    /\ memory = <<>>
    /\ last_access = <<>>
    /\ effects = <<>>
    /\ color_buffer = <<>>
    /\ depth_buffer = <<>>
    /\ draw_log = <<>>
    /\ last_tri = <<>>
    /\ last_cover = <<>>
    /\ num_tris = 0
    /\ g_cur_line = 0
    /\ g_last_line_ticks = 0
    /\ current_ticks = 0
    /\ last_update = <<>>
    /\ fn_call = <<>>
    /\ fn_result = <<>>
    /\ read_pipe_count = 0
    /\ cmd_buff = <<>>
    /\ last_pipe_read = <<>>

VsNext ==
    \/ \E a \in SubmitAddrs, v \in SubmitInstrs : SubmitShaderMemoryChange(a, v)
    \/ \E a \in SubmitSwizzleAddrs, v \in SubmitSwizzles : SubmitSwizzleDataChange(a, v)
    \/ \E in \in InputVertices, n \in 0 .. 2, g \in Garbage : RunShader(in, n, g)
    \/ ProcessShaderCode

VsSpec == VsInit /\ [][VsNext]_vars

---------------------------------------------------------------------------
(* Vertex shader: properties                                               *)

Loaded(p) == shader_memory = p.shader /\ swizzle_data = p.swizzle
IdentityIoMap ==
    /\ registers.vs_input_register_map = InputMapIdentity
    /\ registers.vs_output_attributes = OutputMapIdentity
StackEmpty ==
    \A k \in 0 .. CallStackSize - 1 : state.call_stack[k] = INVALID_ADDRESS

\* C1: a CALL at address p runs the subroutine up to its END, execution then
\* resumes at p + 1 and terminates at the END met with an empty call stack;
\* for CALL 3; END; <3:> MOV o0.x, v0.x; END started at 0 the program counter
\* visits 0, 3, 4, 1, and on termination o0.x = v0.x and the call stack is
\* all INVALID_ADDRESS again.
C1_CallEndReturns ==
    /\ (vs_status \in {"running", "done"} /\ last_instr.resumed_from # -1)
          => state.program_counter = last_instr.resumed_from + 1
    /\ vs_status = "done" => StackEmpty /\ call_sites = <<>>
    /\ (vs_status = "done" /\ Loaded(ProgCallEnd) /\ registers.vs_main_offset = 0)
          => /\ pc_trace = <<0, 3, 4, 1>>
             /\ ret[state.output_register_table[0]]
                  = Load(state, state.input_register_table[0], 0)

C1_Witness ==
    /\ vs_status = "done" /\ Loaded(ProgCallEnd) /\ registers.vs_main_offset = 0
    /\ IdentityIoMap /\ input.num_attributes = 1
    /\ pc_trace = <<0, 3, 4, 1>>
    /\ ret[0] = input.attr[0][0] /\ ret[0] # ret[1]

\* C2 (as claimed): the call stack pointer never leaves call_stack[0..7]; a
\* CALL on a full stack stops execution instead of storing past the array.
C2_CallStackBounded ==
    /\ state.call_stack_pointer \in 0 .. CallStackSize - 1
    /\ vs_ub # "call_stack_write"

\* C3 (as claimed): no access to shader_memory or swizzle_data uses an index
\* above 1023, neither a submitted address nor a program counter.
C3_IndicesInBounds ==
    vs_ub \notin {"shader_memory_write", "swizzle_data_write", "shader_memory_read"}

\* C4: after MOV o0, v0; END (all lanes enabled, identity swizzle, no
\* negation) under the identity input/output map, the four position lanes of
\* the output vertex equal attribute 0 of the input vertex, lane by lane.
C4_MovIdentity ==
    (/\ vs_status = "done" /\ Loaded(ProgMov) /\ IdentityIoMap
     /\ registers.vs_main_offset = 0 /\ input.num_attributes >= 1)
       => \A l \in Lanes : ret[l] = input.attr[0][l]

C4_Witness ==
    /\ vs_status = "done" /\ Loaded(ProgMov) /\ IdentityIoMap
    /\ registers.vs_main_offset = 0 /\ input.num_attributes = 2
    /\ ret[1] = F(-3) /\ ret[4] = F(77)

\* C5 (as claimed): an ADD or MUL with destination mask m changes no lane of
\* its destination register outside m, and no other register: an output
\* vertex lane changes only if the output map assigns it to a component in m
\* of the destination output register, a temporary lane only if it is a
\* component in m of the destination temporary register; status registers
\* and call stack stay as they are.
C5_Step ==
    LET instr == Word(shader_memory, state.program_counter, ZeroInstr)
        swizzle == Word(swizzle_data, instr.operand_desc_id, ZeroSwizzle)
        m == swizzle.dest_mask
    IN (/\ vs_status = "running" /\ vs_status' = "running"
        /\ state.program_counter < ShaderMemoryWords
        /\ instr.opcode \in {"ADD", "MUL"})
       => /\ \A l \in 0 .. NumOutputLanes - 1 :
                ret'[l] # ret[l]
                   => /\ instr.dest < 7
                      /\ \E c \in m : state.output_register_table[4 * instr.dest + c] = l
          /\ \A r \in 0 .. 15 : \A l \in Lanes :
                state'.temporary_registers[r][l] # state.temporary_registers[r][l]
                   => instr.dest = 16 + r /\ l \in m
          /\ state'.status_registers = state.status_registers
          /\ state'.call_stack = state.call_stack
          /\ state'.call_stack_pointer = state.call_stack_pointer
          /\ UNCHANGED <<shader_memory, swizzle_data, shader_uniforms, input>>

C5_MaskedWrite == [][C5_Step]_vars

---------------------------------------------------------------------------
(* GPU register file: layout.  TLC integers are 32-bit signed: register    *)
(* values are drawn below 2^31 and fill values with a low byte below 0x80, *)
(* so that bswap32 stays in range.                                         *)

GpuRegBase == 519045120          \* 0x1EF00000
TwoTo30 == 1073741824
NumIds == 4096                   \* Regs::NumIds(), sizeof(Regs) / sizeof(u32)

\* Word indices of the registers (GPU_REG_INDEX), as laid out in Regs.
MemoryFillConfig(i) == IF i = 0 THEN 4 ELSE 8
FillAddressStart(i) == MemoryFillConfig(i)
FillAddressEnd(i) == MemoryFillConfig(i) + 1
FillValue(i) == MemoryFillConfig(i) + 3
FramebufferConfig(i) == IF i = 0 THEN 279 ELSE 343
ActiveFb(i) == FramebufferConfig(i) + 7
DisplayTransferConfig == 768
TransferInputAddress == DisplayTransferConfig
TransferOutputAddress == DisplayTransferConfig + 1
TransferOutputSize == DisplayTransferConfig + 2
TransferInputSize == DisplayTransferConfig + 3
TransferFlags == DisplayTransferConfig + 4
TransferTrigger == DisplayTransferConfig + 6
CommandProcessorConfig == 1592
CommandSize == CommandProcessorConfig
CommandAddress == CommandProcessorConfig + 2
CommandTrigger == CommandProcessorConfig + 4

FormatRGBA8 == 0
FormatRGB8 == 1

Reg(regs, index) == Word(regs, index, 0)
\* DecodeAddressRegister: the registers hold addresses in units of 8 bytes
DecodeAddressRegister(v) == v * 8
Low16(v) == v % 65536
High16(v) == v \div 65536
Bits(v, pos, n) == (v \div (2 ^ pos)) % (2 ^ n)

\* u32 addr = raw_addr - 0x1EF00000;  int index = addr / 4;
RegIndex(raw_addr) ==
    IF raw_addr >= GpuRegBase
    THEN (raw_addr - GpuRegBase) \div 4
    ELSE ((raw_addr - GpuRegBase) \div 4) + TwoTo30

\* Mutant: the bound test is off by one.
AccessAcceptedInclusive(index, width) == index <= NumIds /\ width = 32

\* !(index >= Regs::NumIds() || !std::is_same<T,u32>::value)
AccessAccepted(index, width) == index < NumIds /\ width = 32

\* bswap32
bswap32(v) ==
    (v % 256) * 16777216 + ((v \div 256) % 256) * 65536
    + ((v \div 65536) % 256) * 256 + (v \div 16777216)

\* Guest memory is kept by byte, at its physical address.
Byte(mem, a) == Word(mem, a, 0)
StoreByte(mem, a, b) == (a :> b) @@ mem
StoreWord32(mem, a, v) ==
    (a :> v % 256) @@ (a + 1 :> (v \div 256) % 256)
    @@ (a + 2 :> (v \div 65536) % 256) @@ (a + 3 :> v \div 16777216) @@ mem
LoadWord32(mem, a) ==
    Byte(mem, a) + Byte(mem, a + 1) * 256 + Byte(mem, a + 2) * 65536
    + Byte(mem, a + 3) * 16777216

\* for (u32* ptr = start; ptr < end; ++ptr) *ptr = bswap32(config.value);
RECURSIVE FillLoop(_, _, _, _)
FillLoop(mem, ptr, end, value) ==
    IF ptr < end
    THEN FillLoop(StoreWord32(mem, ptr, bswap32(value)), ptr + 4, end, value)
    ELSE mem

\* Mutant: the fill value is stored without the byte swap.
RECURSIVE FillLoopNoSwap(_, _, _, _)
FillLoopNoSwap(mem, ptr, end, value) ==
    IF ptr < end
    THEN FillLoopNoSwap(StoreWord32(mem, ptr, value), ptr + 4, end, value)
    ELSE mem

MemoryFillNoSwap(regs, mem, i) ==
    IF Reg(regs, FillAddressStart(i)) # 0
    THEN FillLoopNoSwap(mem, DecodeAddressRegister(Reg(regs, FillAddressStart(i))),
                        DecodeAddressRegister(Reg(regs, FillAddressEnd(i))),
                        Reg(regs, FillValue(i)))
    ELSE mem

\* case memory_fill_config[i].value:  if (config.address_start) { fill }
MemoryFill(regs, mem, i) ==
    IF Reg(regs, FillAddressStart(i)) # 0
    THEN FillLoop(mem, DecodeAddressRegister(Reg(regs, FillAddressStart(i))),
                  DecodeAddressRegister(Reg(regs, FillAddressEnd(i))),
                  Reg(regs, FillValue(i)))
    ELSE mem

\* Faulty variant: the first and third byte change places on the way.
TransferPixelSwapped(regs, mem, x, y) ==
    LET source_pointer == DecodeAddressRegister(Reg(regs, TransferInputAddress))
        dest_pointer == DecodeAddressRegister(Reg(regs, TransferOutputAddress))
        srcptr == source_pointer + x * 4
                  + (y * Low16(Reg(regs, TransferInputSize)) * 4) \div 2
        dstptr == dest_pointer + x * 3
                  + (y * Low16(Reg(regs, TransferOutputSize)) * 3) \div 2
    IN StoreByte(StoreByte(StoreByte(mem, dstptr, Byte(mem, srcptr + 2)),
                           dstptr + 1, Byte(mem, srcptr + 1)),
                 dstptr + 2, Byte(mem, srcptr))

\* One pixel of the display transfer, at column x of row y.
TransferPixel(regs, mem, x, y) ==
    LET source_pointer == DecodeAddressRegister(Reg(regs, TransferInputAddress))
        dest_pointer == DecodeAddressRegister(Reg(regs, TransferOutputAddress))
        input_width == Low16(Reg(regs, TransferInputSize))
        output_width == Low16(Reg(regs, TransferOutputSize))
        input_format == Bits(Reg(regs, TransferFlags), 8, 3)
        output_format == Bits(Reg(regs, TransferFlags), 12, 3)
        srcptr == source_pointer + x * 4 + (y * input_width * 4) \div 2
        dstptr == dest_pointer + x * 3 + (y * output_width * 3) \div 2
        known == input_format = FormatRGBA8
        r == IF known THEN Byte(mem, srcptr) ELSE 0
        g == IF known THEN Byte(mem, srcptr + 1) ELSE 0
        b == IF known THEN Byte(mem, srcptr + 2) ELSE 0
    IN IF output_format = FormatRGB8
       THEN StoreByte(StoreByte(StoreByte(mem, dstptr, r), dstptr + 1, g), dstptr + 2, b)
       ELSE mem

\* for (y < output_height) for (x < output_width / 2), from pixel number k on
RECURSIVE TransferLoop(_, _, _)
TransferLoop(regs, mem, k) ==
    LET w == Low16(Reg(regs, TransferOutputSize)) \div 2
        h == High16(Reg(regs, TransferOutputSize))
    IN IF w = 0 \/ k >= w * h THEN mem
       ELSE TransferLoop(regs, TransferPixel(regs, mem, k % w, k \div w), k + 1)

\* case display_transfer_config.trigger:  if (config.trigger & 1) { copy }
DisplayTransfer(regs, mem) ==
    IF Reg(regs, TransferTrigger) % 2 = 1 THEN TransferLoop(regs, mem, 0) ELSE mem

\* Pica::CommandProcessor::ProcessCommandList(buffer, size), as the call it is
ProcessCommandList(regs) ==
    [op |-> "ProcessCommandList",
     buffer |-> DecodeAddressRegister(Reg(regs, CommandAddress)),
     size |-> Reg(regs, CommandSize) * 8,
     trigger_seen |-> Reg(regs, CommandTrigger)]

Effect(name) == [op |-> name, buffer |-> 0, size |-> 0, trigger_seen |-> 0]

\* Mutant: the written value is not stored before the trigger is acted on.
StoreRegisterDropped(regs, index, data) == regs

\* Faulty variant: the store spills into the next register word.
StoreRegisterPair(regs, index, data) == (index :> data) @@ (index + 1 :> data) @@ regs

\* g_regs[index] = data;
StoreRegister(regs, index, data) == (index :> data) @@ regs

\* Faulty variant: the sub screen's active_fb presents a frame as well.
WriteEffectsBothScreens(regs, index) ==
    CASE index \in {ActiveFb(0), ActiveFb(1)} ->
            <<Effect("SwapBuffers"), Effect("WaitCurrentThread")>>
      [] index = CommandTrigger /\ Reg(regs, CommandTrigger) % 2 = 1 ->
            <<ProcessCommandList(regs)>>
      [] OTHER -> <<>>

\* The side effects of the switch (index) of Write, in order.
WriteEffects(regs, index) ==
    CASE index = ActiveFb(0) -> <<Effect("SwapBuffers"), Effect("WaitCurrentThread")>>
      [] index = CommandTrigger /\ Reg(regs, CommandTrigger) % 2 = 1 ->
            <<ProcessCommandList(regs)>>
      [] OTHER -> <<>>

WriteMemory(regs, mem, index) ==
    CASE index \in {FillValue(0), FillValue(1)} ->
            MemoryFill(regs, mem, IF index = FillValue(0) THEN 0 ELSE 1)
      [] index = TransferTrigger -> DisplayTransfer(regs, mem)
      [] OTHER -> mem

Access(kind, width, raw_addr, data, var_in, var_out, accepted) ==
    [kind |-> kind, width |-> width, raw_addr |-> raw_addr,
     index |-> RegIndex(raw_addr), data |-> data, var_in |-> var_in,
     var |-> var_out, accepted |-> accepted,
     seq |-> last_access.seq + 1, effects_before |-> Len(effects)]

\* template <typename T> void Read(T &var, const u32 raw_addr)
Read(width, raw_addr, var_in) ==
    LET index == RegIndex(raw_addr)
        ok == AccessAccepted(index, width)
    IN /\ last_access.seq < MaxAccesses
       /\ last_access' = Access("Read", width, raw_addr, 0, var_in,
                                IF ok THEN Reg(g_regs, index) ELSE var_in, ok)
       /\ UNCHANGED <<g_regs, memory, effects>>
       /\ UNCHANGED <<g_cur_line, g_last_line_ticks, current_ticks, last_update>>
       /\ UNCHANGED <<vs_vars, raster_vars, dsp_vars>>

\* template <typename T> void Write(u32 addr, const T data)
Write(width, raw_addr, data) ==
    LET index == RegIndex(raw_addr)
        ok == AccessAccepted(index, width)
        regs1 == StoreRegister(g_regs, index, data)
    IN /\ last_access.seq < MaxAccesses
       /\ last_access' = Access("Write", width, raw_addr, data, 0, 0, ok)
       /\ IF ok
          THEN /\ g_regs' = regs1
               /\ memory' = WriteMemory(regs1, memory, index)
               /\ effects' = effects \o WriteEffects(regs1, index)
          ELSE UNCHANGED <<g_regs, memory, effects>>
       /\ UNCHANGED <<g_cur_line, g_last_line_ticks, current_ticks, last_update>>
       /\ UNCHANGED <<vs_vars, raster_vars, dsp_vars>>

---------------------------------------------------------------------------
(* GPU register file: Init(), the settings and accesses the runs are drawn *)
(* from                                                                    *)

\* void Init(): the framebuffer defaults
GpuHwInit(regs) ==
    LET top == FramebufferConfig(0)
        sub == FramebufferConfig(1)
    IN (top :> 480 + 400 * 65536) @@ (top + 3 :> 404643840) @@ (top + 4 :> 404932608)
       @@ (top + 5 :> FormatRGB8) @@ (top + 7 :> 0) @@ (top + 13 :> 480 * 3)
       @@ (top + 14 :> 405221376) @@ (top + 15 :> 405510144)
       @@ (sub :> 480 + 400 * 65536) @@ (sub + 3 :> 407433216)
       @@ (sub + 5 :> FormatRGB8) @@ (sub + 7 :> 0) @@ (sub + 13 :> 480 * 3)
       @@ (sub + 14 :> 407664640) @@ regs

\* Register contents left by earlier accepted writes.
GpuSettings ==
    {<<>>,
     (FillAddressStart(0) :> 1) @@ (FillAddressEnd(0) :> 3)
        @@ (FillAddressStart(1) :> 0) @@ (FillAddressEnd(1) :> 2)
        @@ (CommandAddress :> 2) @@ (CommandSize :> 3)
        @@ (TransferInputAddress :> 3) @@ (TransferOutputAddress :> 1)
        @@ (TransferOutputSize :> 4 + 2 * 65536) @@ (TransferInputSize :> 4 + 2 * 65536)
        @@ (TransferFlags :> FormatRGBA8 * 256 + FormatRGB8 * 4096),
     (FillAddressStart(0) :> 2) @@ (FillAddressEnd(0) :> 2)
        @@ (FillAddressStart(1) :> 4) @@ (FillAddressEnd(1) :> 5)
        @@ (CommandAddress :> 1) @@ (CommandSize :> 1) @@ (CommandTrigger :> 1)
        @@ (TransferInputAddress :> 0) @@ (TransferOutputAddress :> 2)
        @@ (TransferOutputSize :> 3 + 2 * 65536) @@ (TransferInputSize :> 6 + 2 * 65536)
        @@ (TransferFlags :> FormatRGB8 * 256 + FormatRGB8 * 4096),
     (TransferInputAddress :> 1) @@ (TransferOutputAddress :> 2)
        @@ (TransferOutputSize :> 4 + 2 * 65536) @@ (TransferInputSize :> 4 + 2 * 65536)
        @@ (TransferFlags :> FormatRGBA8 * 256 + FormatRGB8 * 4096)}

FillWord == 287454020      \* 0x11223344, bswap32 of which is 0x44332211
AccessWidths == {8, 32, 64}
RegAddr(index) == GpuRegBase + 4 * index
AccessAddrs ==
    {RegAddr(i) : i \in {0, FillAddressStart(0), FillValue(0), FillValue(1), ActiveFb(0),
                         ActiveFb(1), TransferTrigger, CommandTrigger, CommandSize,
                         NumIds - 1, NumIds}}
    \cup {RegAddr(FillValue(0)) + 2, GpuRegBase - 4}
WriteValues(raw_addr) ==
    IF RegIndex(raw_addr) \in {0, FillValue(0), FillValue(1)}
    THEN {0, 1, 2, 3, FillWord} ELSE {0, 1, 2, 3}
ReadVarBefore == 57005

GpuInit ==
    /\ \E s \in GpuSettings : g_regs = s @@ GpuHwInit(<<>>)
    /\ memory = [a \in 0 .. GuestBytes - 1 |-> (a * 3 + 1) % 256]
    /\ last_access = [kind |-> "none", width |-> 0, raw_addr |-> 0, index |-> 0,
                      data |-> 0, var_in |-> 0, var |-> 0, accepted |-> FALSE,
                      seq |-> 0, effects_before |-> 0]
    /\ effects = <<>>
    /\ shader_memory = <<>>
    /\ swizzle_data = <<>>
    /\ shader_uniforms = <<>>
    /\ registers = <<>>
    /\ vs_status = "idle"
    /\ state = NoState
    /\ input = <<>>
    /\ dummy_register = <<>>
    /\ ret = <<>>
    /\ vs_ub = "none"
    /\ submits = 0
    /\ pc_trace = <<>>
    /\ call_sites = <<>>
    /\ last_instr = NoInstr
    /\ color_buffer = <<>>
    /\ depth_buffer = <<>>
    /\ draw_log = <<>>
    /\ last_tri = <<>>
    /\ last_cover = <<>>
    /\ num_tris = 0
    /\ g_cur_line = 0
    /\ g_last_line_ticks = 0
    /\ current_ticks = 0
    /\ last_update = <<>>
    /\ fn_call = <<>>
    /\ fn_result = <<>>
    /\ read_pipe_count = 0
    /\ cmd_buff = <<>>
    /\ last_pipe_read = <<>>

GpuNext ==
    \/ \E w \in AccessWidths, a \in AccessAddrs : \E d \in WriteValues(a) : Write(w, a, d)
    \/ \E w \in AccessWidths, a \in AccessAddrs : Read(w, a, ReadVarBefore)

GpuSpec == GpuInit /\ [][GpuNext]_vars

---------------------------------------------------------------------------
(* GPU register file: properties                                           *)

Dropped(acc) ==
    acc.kind \in {"Read", "Write"} /\ (acc.width # 32 \/ acc.index >= NumIds)

\* C6: a Read or Write whose width is not 32 bits, or whose register index
\* (addr - 0x1EF00000) / 4 is >= NumIds, is dropped: the register file and
\* guest memory are unchanged, no trigger effect happens, and a Read leaves
\* its output variable as it was.
C6_Step ==
    (last_access'.seq # last_access.seq /\ Dropped(last_access'))
       => /\ UNCHANGED <<g_regs, memory, effects>>
          /\ ~last_access'.accepted
          /\ last_access'.kind = "Read" => last_access'.var = last_access'.var_in

C6_DroppedAccess == [][C6_Step]_vars

C6_Witness ==
    /\ last_access.kind = "Write" /\ last_access.seq = 2
    /\ last_access.index = NumIds /\ last_access.width = 32 /\ last_access.data = 1
    /\ effects = <<>>

FillUnit(index) == IF index = FillValue(0) THEN 0 ELSE 1
FillWrite(acc) ==
    acc.kind = "Write" /\ acc.accepted /\ acc.index \in {FillValue(0), FillValue(1)}
FillWords(i) ==
    {a \in 0 .. GuestBytes + 16 :
        /\ a >= DecodeAddressRegister(Reg(g_regs, FillAddressStart(i)))
        /\ a < DecodeAddressRegister(Reg(g_regs, FillAddressEnd(i)))
        /\ a % 4 = 0}

\* C7 (as claimed): after a 32-bit write to memory_fill_config[i].value every
\* word of [start, end) of that unit reads bswap32(value), whatever start and
\* end are configured.
C7_FillAlways ==
    FillWrite(last_access)
       => \A a \in FillWords(FillUnit(last_access.index)) :
             LoadWord32(memory, a) = bswap32(last_access.data)

\* C7 (amended): after a 32-bit write to memory_fill_config[i].value with a
\* nonzero address_start, every word of [start, end) reads bswap32(value).
C7_FillWhenStartNonzero ==
    (FillWrite(last_access)
     /\ Reg(g_regs, FillAddressStart(FillUnit(last_access.index))) # 0)
       => \A a \in FillWords(FillUnit(last_access.index)) :
             LoadWord32(memory, a) = bswap32(last_access.data)

C7_Witness ==
    /\ FillWrite(last_access) /\ last_access.index = FillValue(0)
    /\ last_access.data = FillWord
    /\ Reg(g_regs, FillAddressStart(0)) = 1 /\ Reg(g_regs, FillAddressEnd(0)) = 3
    /\ \A a \in {8, 12, 16, 20} : LoadWord32(memory, a) = 1144201745
    /\ LoadWord32(memory, 4) # 1144201745 /\ LoadWord32(memory, 24) # 1144201745

CommandListCalls == {k \in 1 .. Len(effects) : effects[k].op = "ProcessCommandList"}

\* C8: an accepted write to command_processor_config.trigger with bit 0 set
\* stores the value and then makes exactly one ProcessCommandList call, with
\* the configured address and size, which sees the stored trigger; with bit 0
\* clear, and on a write to any other register, no call is made.
C8_CommandListTrigger ==
    (last_access.kind = "Write" /\ last_access.accepted)
       => IF last_access.index = CommandTrigger /\ last_access.data % 2 = 1
          THEN /\ Reg(g_regs, CommandTrigger) = last_access.data
               /\ Len(effects) = last_access.effects_before + 1
               /\ effects[Len(effects)] =
                     [op |-> "ProcessCommandList",
                      buffer |-> 8 * Reg(g_regs, CommandAddress),
                      size |-> 8 * Reg(g_regs, CommandSize),
                      trigger_seen |-> last_access.data]
          ELSE \A k \in CommandListCalls : k <= last_access.effects_before

C8_Witness ==
    /\ last_access.kind = "Write" /\ last_access.accepted
    /\ last_access.index = CommandTrigger /\ last_access.data = 3
    /\ last_access.seq = 2
    /\ Len(effects) = 2 /\ effects[1].op = "ProcessCommandList"
    /\ effects[2].op = "ProcessCommandList" /\ effects[2].buffer = 16

---------------------------------------------------------------------------
(* Rasterizer: arithmetic helpers                                          *)

\* C integer division and float-to-integer conversion truncate toward zero.
TruncDiv(a, b) == Sgn(a) * Sgn(b) * (Abs(a) \div Abs(b))
IsFinite(f) == f[2] # 0
Trunc(f) == TruncDiv(f[1], f[2])

\* (T)flt for an integer type with values lo .. hi.  A value outside the
\* type (or an infinity, or NaN) makes the conversion undefined: undef.
CastFloat(f, lo, hi, undef) ==
    The({IF IsFinite(x) /\ Trunc(x) >= lo /\ Trunc(x) <= hi THEN Trunc(x) ELSE undef :
            x \in {f}})

\* bit b of a two's complement integer, in place:  v & (1 << b)
BitAt(v, b) == ((v \div (2 ^ b)) % 2) * (2 ^ b)

\* Fix12P4(static_cast<unsigned short>(flt.ToFloat32() * 16.0f))
FloatToFix(flt, undef) == CastFloat(FMul(flt, F(16)), 0, 65535, undef * 257)

\* ScreenToRasterizerCoordinates, x and y
ScreenToRasterizerCoordinates(vec, undef) ==
    <<FloatToFix(vec[1], undef), FloatToFix(vec[2], undef)>>

IntMask(v) == (v \div 16) * 16
\* max = ((max + FracMask()) & IntMask()), stored to a u16
CeilMask(v) == IntMask((v + 15) % 65536)

Min3(a, b, c) == Min(a, Min(b, c))
Max3(a, b, c) == Max(a, Max(b, c))

\* IsRightSideOrFlatBottomEdge(vtx, line1, line2); points are <<x, y>>
IsRightSideOrFlatBottomEdge(vtx, line1, line2) ==
    IF line1[2] = line2[2]
    THEN vtx[2] < line1[2]
    ELSE vtx[1] < line1[1]
                  + TruncDiv((line2[1] - line1[1]) * (vtx[2] - line1[2]),
                             line2[2] - line1[2])

Bias(vtx, line1, line2) == IF IsRightSideOrFlatBottomEdge(vtx, line1, line2) THEN -1 ELSE 0

\* orient2d: Cross(MakeVec(vtx2 - vtx1, 0), MakeVec(vtx3 - vtx1, 0)).z
orient2d(vtx1, vtx2, vtx3) ==
    (vtx2[1] - vtx1[1]) * (vtx3[2] - vtx1[2]) - (vtx2[2] - vtx1[2]) * (vtx3[1] - vtx1[1])

\* Faulty variant: a sample with all three edge values <= 0 is covered too.
CoveredTwoSided(w0, w1, w2) ==
    ~(w0 < 0 \/ w1 < 0 \/ w2 < 0) \/ ~(w0 > 0 \/ w1 > 0 \/ w2 > 0)

\* Mutant: samples on an unbiased edge are skipped too.
CoveredStrict(w0, w1, w2) == ~(w0 <= 0 \/ w1 <= 0 \/ w2 <= 0)

\* !(w0 < 0 || w1 < 0 || w2 < 0)
Covered(w0, w1, w2) == ~(w0 < 0 \/ w1 < 0 \/ w2 < 0)

---------------------------------------------------------------------------
(* Rasterizer: one covered pixel                                           *)

Color(r, g, b, a) == [r |-> r, g |-> g, b |-> b, a |-> a]
ZeroColor == Color(0, 0, 0, 0)
U8(v) == v % 256     \* Cast<u8>() of an int

\* GetInterpolatedAttribute(attr0, attr1, attr2) at barycentrics w0, w1, w2
GetInterpolatedAttribute(t, a0, a1, a2, w0, w1, w2) ==
    LET pw == <<t.v[1].pos_w, t.v[2].pos_w, t.v[3].pos_w>>
        one == F(1)
        attr_over_w == <<FDiv(a0, pw[1]), FDiv(a1, pw[2]), FDiv(a2, pw[3])>>
        w_inverse == <<FDiv(one, pw[1]), FDiv(one, pw[2]), FDiv(one, pw[3])>>
        bary == <<F(w0), F(w1), F(w2)>>
        dot(a, b) == FAdd(FAdd(FMul(a[1], b[1]), FMul(a[2], b[2])), FMul(a[3], b[3]))
    IN FDiv(dot(attr_over_w, bary), dot(w_inverse, bary))

\* (u8)(GetInterpolatedAttribute(...).ToFloat32() * 255) for each channel
PrimaryColor(t, w0, w1, w2) ==
    LET ch(c) == CastFloat(FMul(GetInterpolatedAttribute(t, t.v[1].color[c],
                              t.v[2].color[c], t.v[3].color[c], w0, w1, w2), F(255)),
                           0, 255, t.undef)
    IN Color(ch(0), ch(1), ch(2), ch(3))

\* Faulty variant: Repeat takes the remainder of the signed value.
GetWrappedTexCoordSigned(mode, val, size, undef) ==
    CASE mode = "ClampToEdge" -> Min(Max(val, 0), size - 1)
      [] mode = "Repeat" -> IF size = 0 THEN undef ELSE val - TruncDiv(val, size) * size
      [] OTHER -> 0

\* GetWrappedTexCoord(mode, val, size)
GetWrappedTexCoord(mode, val, size, undef) ==
    CASE mode = "ClampToEdge" -> Min(Max(val, 0), size - 1)
      [] mode = "Repeat" ->
            IF size = 0 THEN undef
            ELSE IF val >= 0 THEN val % size
            ELSE ((val % size) + (((65536 % size) * (65536 % size)) % size)) % size
      [] OTHER -> 0

\* Faulty variant: the texels of a tile lie row by row.
TexelIndexRowMajor(sc, tc) == (sc % 8) + 8 * (tc % 8)

\* texel_index_within_tile for wrapped s, t
TexelIndexWithinTile(sc, tc) ==
    (BitAt(sc, 0) * 1 + 2 * (BitAt(tc, 0) * 1))
    + (BitAt(sc, 1) * 2 + 2 * (BitAt(tc, 1) * 2))
    + (BitAt(sc, 2) * 4 + 2 * (BitAt(tc, 2) * 4))

\* source_ptr - texture_data: where the texel at wrapped (s, t) lies
TexelOffset(sc, tc, width) ==
    LET row_stride == width * 3
    IN (TruncDiv(sc, 8) * 8) * 8 * 3 + (TruncDiv(tc, 8) * 8) * row_stride
       + TexelIndexWithinTile(sc, tc) * 3

\* s and t of unit i at one pixel, before (s, t) and after (sc, tc) wrapping
TexCoords(t, i, w0, w1, w2) ==
    LET texture == registers.textures[i]
        tcs == <<t.v[1].tc[i], t.v[2].tc[i], t.v[3].tc[i]>>
        u == GetInterpolatedAttribute(t, tcs[1][1], tcs[2][1], tcs[3][1], w0, w1, w2)
        v == GetInterpolatedAttribute(t, tcs[1][2], tcs[2][2], tcs[3][2], w0, w1, w2)
    IN The({[s |-> s0, t |-> t0,
             sc |-> GetWrappedTexCoord(registers.textures[0].wrap_s, s0,
                                       registers.textures[0].width, t.undef),
             tc |-> GetWrappedTexCoord(registers.textures[0].wrap_t, t0,
                                       registers.textures[0].height, t.undef)] :
               s0 \in {CastFloat(FMul(u, F(texture.width)),
                                 -2147483647, 2147483647, t.undef)},
               t0 \in {CastFloat(FMul(v, F(texture.height)),
                                 -2147483647, 2147483647, t.undef)}})

\* source_ptr of unit i at wrapped coordinates c
SourcePtr(i, c) ==
    DecodeAddressRegister(registers.textures[i].address)
    + TexelOffset(c.sc, c.tc, registers.textures[i].width)

\* if (texture.enabled) continue;
TextureSkipped(i) == registers.textures[i].enabled

\* texture_color[i] for one pixel
TextureColor(t, i, w0, w1, w2) ==
    IF TextureSkipped(i)
    THEN ZeroColor       \* Math::Vec4<u8> texture_color[3]{}
    ELSE The({Color(Byte(memory, ptr + 2), Byte(memory, ptr + 1),
                    Byte(memory, ptr), 255) :
                 ptr \in {SourcePtr(i, TexCoords(t, i, w0, w1, w2))}})

\* The guest addresses the loop over the units reads for unit i at one pixel.
TextureReads(t, i, w0, w1, w2) ==
    IF TextureSkipped(i) THEN {}
    ELSE The({{ptr, ptr + 1, ptr + 2} :
                 ptr \in {SourcePtr(i, TexCoords(t, i, w0, w1, w2))}})

\* GetColorSource / GetAlphaSource, as one RGBA value
GetSource(source, stage, primary, tex, previous) ==
    CASE source = "PrimaryColor" -> primary
      [] source = "Texture0" -> tex[0]
      [] source = "Texture1" -> tex[1]
      [] source = "Texture2" -> tex[2]
      [] source = "Constant" -> stage.const
      [] source = "Previous" -> previous
      [] OTHER -> ZeroColor

\* GetColorModifier(factor, values)
GetColorModifier(factor, c) ==
    CASE factor = "SourceColor" -> <<c.r, c.g, c.b>>
      [] factor = "SourceAlpha" -> <<c.r, c.g, c.b>>
      [] OTHER -> <<0, 0, 0>>

\* GetAlphaModifier(factor, value)
GetAlphaModifier(factor, a) ==
    CASE factor = "SourceAlpha" -> a
      [] factor = "OneMinusSourceAlpha" -> 255 - a
      [] OTHER -> 0

\* ColorCombine / AlphaCombine on one channel; the result is cast to u8
Combine(op, in0, in1, in2) ==
    CASE op = "Replace" -> in0
      [] op = "Modulate" -> U8((in0 * in1) \div 255)
      [] op = "Add" -> U8(in0 + in1)
      [] op = "Lerp" -> U8((in0 * in2 + in1 * U8(255 - in2)) \div 255)
      [] OTHER -> 0

\* One texture environment stage
TevStage(stage, primary, tex, previous) ==
    LET cr == [k \in 1 .. 3 |->
                  GetColorModifier(stage.color_modifier[k],
                      GetSource(stage.color_source[k], stage, primary, tex, previous))]
        ar == [k \in 1 .. 3 |->
                  GetAlphaModifier(stage.alpha_modifier[k],
                      GetSource(stage.alpha_source[k], stage, primary, tex, previous).a)]
    IN Color(Combine(stage.color_op, cr[1][1], cr[2][1], cr[3][1]),
             Combine(stage.color_op, cr[1][2], cr[2][2], cr[3][2]),
             Combine(stage.color_op, cr[1][3], cr[2][3], cr[3][3]),
             Combine(stage.alpha_op, ar[1], ar[2], ar[3]))

\* Faulty variant: the stages run from the last register to the first.
RECURSIVE TevStagesReversed(_, _, _, _)
TevStagesReversed(k, primary, tex, previous) ==
    LET n == Len(registers.tev_stages)
    IN IF k > n THEN <<>>
       ELSE The({<<output>> \o TevStagesReversed(k + 1, primary, tex, output) :
                    output \in {TevStage(registers.tev_stages[n + 1 - k], primary, tex,
                                         previous)}})

\* for (auto tev_stage : registers.GetTevStages()), stages k .. 6: the values
\* combiner_output takes, one per stage
RECURSIVE TevStages(_, _, _, _)
TevStages(k, primary, tex, previous) ==
    IF k > Len(registers.tev_stages) THEN <<>>
    ELSE The({<<output>> \o TevStages(k + 1, primary, tex, output) :
                 output \in {TevStage(registers.tev_stages[k], primary, tex, previous)}})

\* u16 z = (u16)((z0 * w0 + z1 * w1 + z2 * w2) * 65535.f / wsum)
Depth(t, w0, w1, w2) ==
    LET z(i) == t.v[i].screenpos[3]
        sum == FAdd(FAdd(FMul(z(1), F(w0)), FMul(z(2), F(w1))), FMul(z(3), F(w2)))
    IN CastFloat(FDiv(FMul(sum, F(65535)), F(w0 + w1 + w2)), 0, 65535, t.undef * 257)

\* combiner_output and z of one covered pixel, with what led to them: the
\* primary colour, texture_color, the coordinates and guest addresses of the
\* units, and combiner_output after each stage
Shade(t, w0, w1, w2) ==
    LET uninit == Color(t.undef, t.undef, t.undef, t.undef)
        Final(stages) == IF stages = <<>> THEN uninit ELSE stages[Len(stages)]
        Pixel(primary, tex) ==
            The({[color |-> Final(stages), z |-> Depth(t, w0, w1, w2),
                  primary |-> primary, tex |-> tex, stages |-> stages,
                  coords |-> [i \in 0 .. 2 |-> TexCoords(t, i, w0, w1, w2)],
                  reads |-> [i \in 0 .. 2 |-> TextureReads(t, i, w0, w1, w2)]] :
                    stages \in {TevStages(1, primary, tex, uninit)}})
    IN The({Pixel(primary, tex) :
               primary \in {PrimaryColor(t, w0, w1, w2)},
               tex \in {[i \in 0 .. 2 |-> TextureColor(t, i, w0, w1, w2)]}})

---------------------------------------------------------------------------
(* Rasterizer: ProcessTriangle                                             *)

MaxTris == 2

\* Everything ProcessTriangle computes before its loops.
TriangleSetup(v0, v1, v2, undef) ==
    The({[v |-> <<v0, v1, v2>>, undef |-> undef, vtxpos |-> vtxpos,
          min_x |-> IntMask(Min3(vtxpos[1][1], vtxpos[2][1], vtxpos[3][1])),
          min_y |-> IntMask(Min3(vtxpos[1][2], vtxpos[2][2], vtxpos[3][2])),
          max_x |-> CeilMask(Max3(vtxpos[1][1], vtxpos[2][1], vtxpos[3][1])),
          max_y |-> CeilMask(Max3(vtxpos[1][2], vtxpos[2][2], vtxpos[3][2])),
          bias |-> <<Bias(vtxpos[1], vtxpos[2], vtxpos[3]),
                     Bias(vtxpos[2], vtxpos[3], vtxpos[1]),
                     Bias(vtxpos[3], vtxpos[1], vtxpos[2])>>] :
            vtxpos \in {<<ScreenToRasterizerCoordinates(v0.screenpos, undef),
                          ScreenToRasterizerCoordinates(v1.screenpos, undef),
                          ScreenToRasterizerCoordinates(v2.screenpos, undef)>>}})

\* Iterations of the x loop per row, and of the y loop.
LoopCols(t) == IF t.min_x < t.max_x THEN (t.max_x - t.min_x) \div 16 ELSE 0
LoopRows(t) == IF t.min_y < t.max_y THEN (t.max_y - t.min_y) \div 16 ELSE 0
SampleX(t, k) == t.min_x + 16 * (k % LoopCols(t))
SampleY(t, k) == t.min_y + 16 * (k \div LoopCols(t))

\* w0, w1, w2 at the sample {x, y}
EdgeValues(t, x, y) ==
    <<t.bias[1] + orient2d(t.vtxpos[2], t.vtxpos[3], <<x, y>>),
      t.bias[2] + orient2d(t.vtxpos[3], t.vtxpos[1], <<x, y>>),
      t.bias[3] + orient2d(t.vtxpos[1], t.vtxpos[2], <<x, y>>)>>

\* The u32 DrawPixel stores, as its four bytes, least significant first.
PackColor(c) == <<c.b, c.g, c.r, c.a>>

\* color_buffer + x + y * registers.framebuffer.GetWidth()
PixelIndex(x, y) == x + y * registers.framebuffer.width

DrawPixel(buf, x, y, color) == (PixelIndex(x, y) :> PackColor(color)) @@ buf
SetDepth(buf, x, y, value) == (PixelIndex(x, y) :> value) @@ buf

\* The body of the loops at sample k: buffers and logs after it.
LoopBody(t, k, acc) ==
    LET x == SampleX(t, k)
        y == SampleY(t, k)
        px == x \div 16
        py == y \div 16
        Pixel(w) ==
            The({[color_buffer |-> DrawPixel(acc.color_buffer, px, py, out.color),
                  depth_buffer |-> SetDepth(acc.depth_buffer, px, py, out.z),
                  draw_log |-> acc.draw_log \o <<[op |-> "SetDepth", x |-> px, y |-> py],
                                                 [op |-> "DrawPixel", x |-> px, y |-> py]>>,
                  last_cover |-> (<<px, py>> :> out) @@ acc.last_cover] :
                    out \in {Shade(t, w[1], w[2], w[3])}})
    IN The({IF ~Covered(w[1], w[2], w[3]) THEN acc ELSE Pixel(w) :
               w \in {EdgeValues(t, x, y)}})

\* Loop iterations k, k + 1, ... of ProcessTriangle, row by row.
RECURSIVE RasterLoop(_, _, _)
RasterLoop(t, k, acc) ==
    IF k >= LoopCols(t) * LoopRows(t) THEN acc
    ELSE The({RasterLoop(t, k + 1, after) : after \in {LoopBody(t, k, acc)}})

ProcessTriangle(v0, v1, v2, undef) ==
    /\ \E t \in {TriangleSetup(v0, v1, v2, undef)} :
         \E r \in {RasterLoop(t, 0, [color_buffer |-> color_buffer,
                                     depth_buffer |-> depth_buffer,
                                     draw_log |-> <<>>, last_cover |-> last_cover])} :
            /\ color_buffer' = r.color_buffer
            /\ depth_buffer' = r.depth_buffer
            /\ draw_log' = r.draw_log
            /\ last_cover' = r.last_cover
            /\ last_tri' = t
    /\ num_tris' = num_tris + 1
    /\ UNCHANGED <<fn_call, fn_result>>
    /\ UNCHANGED <<vs_vars, gpu_vars, dsp_vars>>

---------------------------------------------------------------------------
(* Rasterizer: register settings, vertices, specification                   *)

FbWidth == 4
FbHeight == 4

Three(x) == <<x, x, x>>
\* A texture environment stage, and the two usual ones.
Stage(cs, cm, cop, as, am, aop, const) ==
    [color_source |-> cs, color_modifier |-> cm, color_op |-> cop,
     alpha_source |-> as, alpha_modifier |-> am, alpha_op |-> aop, const |-> const]
StageReplace(src) ==
    Stage(Three(src), Three("SourceColor"), "Replace",
          Three(src), Three("SourceAlpha"), "Replace", ZeroColor)
PassThrough == StageReplace("Previous")

TextureUnit(enabled, address, width, height, wrap_s, wrap_t) ==
    [enabled |-> enabled, address |-> address, width |-> width, height |-> height,
     wrap_s |-> wrap_s, wrap_t |-> wrap_t]
\* A unit the pixel loop skips (its enable bit is set) ...
SkippedUnit == TextureUnit(TRUE, 0, 0, 0, "ClampToEdge", "ClampToEdge")
\* ... and one it samples: 8 x 8 texels at guest address 8.
SampledUnit == TextureUnit(FALSE, 1, 8, 8, "Repeat", "ClampToEdge")

RasterRegisters(units, stage1) ==
    [framebuffer |-> [width |-> FbWidth, height |-> FbHeight],
     textures |-> units,
     tev_stages |-> <<stage1, PassThrough, PassThrough, PassThrough, PassThrough,
                      PassThrough>>]

RasterRegisterSettings ==
    {RasterRegisters([i \in 0 .. 2 |-> SkippedUnit], StageReplace("PrimaryColor")),
     RasterRegisters([i \in 0 .. 2 |-> IF i = 0 THEN SampledUnit ELSE SkippedUnit],
                     Stage(<<"PrimaryColor", "Texture0", "Constant">>,
                           Three("SourceColor"), "Modulate",
                           <<"PrimaryColor", "Constant", "Constant">>,
                           Three("SourceAlpha"), "Add", Color(0, 0, 0, 64)))}

\* An OutputVertex: screen position, clip w, colour and texture coordinates.
Vertex(x, y, z, w, color) ==
    [screenpos |-> <<x, y, z>>, pos_w |-> w, color |-> color,
     tc |-> [i \in 0 .. 2 |-> <<FDiv(x, F(4)), FDiv(y, F(4))>>]]

\* Screen positions, in pixels.
Pt(a, b) == <<a, b>>
TrianglePositions ==
    {<<Pt(F(0), F(0)), Pt(F(4), F(0)), Pt(F(0), F(4))>>,
     <<Pt(F(0), F(0)), Pt(F(0), F(4)), Pt(F(4), F(0))>>,
     <<Pt(F(4), F(0)), Pt(F(4), F(4)), Pt(F(0), F(4))>>,
     <<Pt(F(4), F(0)), Pt(F(0), F(4)), Pt(F(4), F(4))>>,
     <<Pt(F(4), F(0)), Pt(F(7), F(0)), Pt(F(4), F(3))>>,
     <<Pt(F(4), F(0)), Pt(F(4), F(3)), Pt(F(7), F(0))>>,
     <<Pt(<<1, 2>>, <<1, 2>>), Pt(<<3, 2>>, <<7, 2>>), Pt(<<7, 2>>, <<33, 32>>)>>,
     <<Pt(F(0), F(0)), Pt(F(2), F(2)), Pt(F(4), F(4))>>,
     <<Pt(F(1), F(1)), Pt(F(1), F(1)), Pt(F(1), F(1))>>,
     <<Pt(F(0), F(0)), Pt(F(2), F(4)), Pt(F(0), <<1, 16>>)>>,
     <<Pt(F(0), F(0)), Pt(F(1), F(0)), Pt(F(2), F(4))>>}

\* Per-vertex depth, clip w and colour.
Palettes ==
    {[z |-> Three(<<1, 4>>), w |-> Three(F(1)),
      color |-> Three(Vec4(F(1), F(0), F(0), F(1)))],
     [z |-> <<<<1, 2>>, <<1, 4>>, <<3, 4>>>>, w |-> <<F(1), F(2), F(1)>>,
      color |-> <<Vec4(F(0), F(1), F(0), F(1)), Vec4(F(0), F(0), F(1), <<1, 2>>),
                  Vec4(F(1), F(1), F(1), F(1))>>]}

TriangleVertex(pos, pal, i) ==
    Vertex(pos[i][1], pos[i][2], pal.z[i], pal.w[i], pal.color[i])

\* What an undefined conversion or an uninitialised read may yield (a u8).
UndefValues == {0, 255}

RasterInit ==
    /\ shader_memory = <<>>
    /\ swizzle_data = <<>>
    /\ shader_uniforms = <<>>
    /\ registers \in RasterRegisterSettings
    /\ vs_status = "idle"
    /\ state = NoState
    /\ input = <<>>
    /\ dummy_register = <<>>
    /\ ret = <<>>
    /\ vs_ub = "none"
    /\ submits = 0
    /\ pc_trace = <<>>
    /\ call_sites = <<>>
    /\ last_instr = NoInstr
    /\ g_regs = <<>>
    /\ memory = [a \in 0 .. 8 + 8 * 8 * 3 - 1 |-> (a * 7 + 5) % 256]
    /\ last_access = <<>>
    /\ effects = <<>>
    /\ color_buffer = <<>>
    /\ depth_buffer = <<>>
    /\ draw_log = <<>>
    /\ last_tri = <<>>
    /\ last_cover = <<>>
    /\ num_tris = 0
    /\ g_cur_line = 0
    /\ g_last_line_ticks = 0
    /\ current_ticks = 0
    /\ last_update = <<>>
    /\ fn_call = <<>>
    /\ fn_result = <<>>
    /\ read_pipe_count = 0
    /\ cmd_buff = <<>>
    /\ last_pipe_read = <<>>

RasterNext ==
    /\ num_tris < MaxTris
    /\ \E pos \in TrianglePositions, pal \in Palettes, undef \in UndefValues :
          ProcessTriangle(TriangleVertex(pos, pal, 1), TriangleVertex(pos, pal, 2),
                          TriangleVertex(pos, pal, 3), undef)

RasterSpec == RasterInit /\ [][RasterNext]_vars

---------------------------------------------------------------------------
(* Rasterizer: properties                                                   *)

\* Sample points of the bounding box of the last triangle, as loop indices.
BoxSamples == 0 .. LoopCols(last_tri) * LoopRows(last_tri) - 1
\* Number of writes of kind op the last ProcessTriangle made to pixel (px, py).
Writes(op, px, py) ==
    Cardinality({i \in 1 .. Len(draw_log) :
                    draw_log[i] = [op |-> op, x |-> px, y |-> py]})
SampleInside(k) ==
    LET w == EdgeValues(last_tri, SampleX(last_tri, k), SampleY(last_tri, k))
    IN w[1] >= 0 /\ w[2] >= 0 /\ w[3] >= 0
SamplePixel(k) == <<SampleX(last_tri, k) \div 16, SampleY(last_tri, k) \div 16>>

\* C9: ProcessTriangle writes depth and colour exactly once at every sample
\* point of the bounding box (x, y multiples of 16 with min <= . < max) whose
\* biased edge values w0, w1, w2 are all >= 0, and writes nothing at a sample
\* point where one of them is negative.
C9_CoverageOnce ==
    num_tris > 0 =>
        /\ \A k \in BoxSamples :
              LET p == SamplePixel(k)
                  n == IF SampleInside(k) THEN 1 ELSE 0
              IN Writes("SetDepth", p[1], p[2]) = n /\ Writes("DrawPixel", p[1], p[2]) = n
        /\ Len(draw_log) = 2 * Cardinality({k \in BoxSamples : SampleInside(k)})

\* A triangle with samples inside, samples outside, and a sample inside that
\* lies exactly on an edge (some biased edge value is 0).
C9_Witness ==
    /\ num_tris > 0
    /\ \E k \in BoxSamples : ~SampleInside(k)
    /\ \E k \in BoxSamples :
          /\ SampleInside(k)
          /\ 0 \in {EdgeValues(last_tri, SampleX(last_tri, k), SampleY(last_tri, k))[i] :
                      i \in 1 .. 3}
          /\ Writes("DrawPixel", SamplePixel(k)[1], SamplePixel(k)[2]) = 1

\* C10: the colour and depth stored at a pixel (x, y) of the framebuffer are
\* those produced by the last triangle that covered (x, y).
C10_LastTriangleWins ==
    \A p \in DOMAIN last_cover :
        (p[1] < registers.framebuffer.width /\ p[2] < registers.framebuffer.height) =>
            /\ Word(color_buffer, PixelIndex(p[1], p[2]), <<0, 0, 0, 0>>)
                   = PackColor(last_cover[p].color)
            /\ Word(depth_buffer, PixelIndex(p[1], p[2]), 0) = last_cover[p].z

---------------------------------------------------------------------------
(* GPU: Update, the periodic hardware pulse                                 *)

MaxUpdates == 7

kFrameTicks == 1489574      \* GPU::kFrameTicks, (268123480 / 60) / 3

\* framebuffer_top.height: the upper half of the size word
FramebufferHeight(regs) == High16(Reg(regs, FramebufferConfig(0)))

\* (current_ticks - g_last_line_ticks) >= GPU::kFrameTicks / framebuffer_top.height
LineElapsed(now, last, height) == now - last >= kFrameTicks \div height

\* Faulty variant: the frame ends one line late.
FrameReachedLate(line, height) == line > height

\* g_cur_line >= framebuffer_top.height
FrameReached(line, height) == line >= height

\* void Update(), called when the clock reads now.  A height of 0 divides
\* by zero: the call traps and no state follows.
Update(now) ==
    LET height == FramebufferHeight(g_regs)
        sync_line == LineElapsed(now, g_last_line_ticks, height)
        line == IF sync_line THEN g_cur_line + 1 ELSE g_cur_line
        sync_frame == FrameReached(line, height)
    IN /\ last_update.seq < MaxUpdates
       /\ height # 0
       /\ current_ticks' = now
       /\ g_last_line_ticks' = IF sync_line THEN now ELSE g_last_line_ticks
       /\ g_cur_line' = IF sync_frame THEN 0 ELSE line
       /\ effects' = effects
                     \o (IF sync_line THEN <<Effect("PDC0")>> ELSE <<>>)
                     \o (IF sync_frame
                         THEN <<Effect("PDC1"), Effect("SwapBuffers"),
                                Effect("WaitCurrentThread"), Effect("Reschedule")>>
                         ELSE <<>>)
       /\ last_update' = [seq |-> last_update.seq + 1, height |-> height,
                          elapsed |-> now - g_last_line_ticks,
                          line_before |-> g_cur_line, effects_before |-> Len(effects)]
       /\ UNCHANGED <<g_regs, memory, last_access>>
       /\ UNCHANGED <<vs_vars, raster_vars, dsp_vars>>

\* Top-screen heights, and how far the clock moves between two Update calls.
Heights == {1, 2, 3}
TickSteps(height) ==
    LET per_line == kFrameTicks \div height
    IN {0, per_line \div 2 + 1, per_line, 3 * per_line}

UpdateInit ==
    /\ \E h \in Heights :
          g_regs = (FramebufferConfig(0) :> 480 + h * 65536) @@ GpuHwInit(<<>>)
    /\ memory = <<>>
    /\ last_access = <<>>
    /\ effects = <<>>
    /\ g_cur_line = 0
    /\ g_last_line_ticks = 0
    /\ current_ticks = 0
    /\ last_update = [seq |-> 0, height |-> 0, elapsed |-> 0, line_before |-> 0,
                      effects_before |-> 0]
    /\ shader_memory = <<>>
    /\ swizzle_data = <<>>
    /\ shader_uniforms = <<>>
    /\ registers = <<>>
    /\ vs_status = "idle"
    /\ state = NoState
    /\ input = <<>>
    /\ dummy_register = <<>>
    /\ ret = <<>>
    /\ vs_ub = "none"
    /\ submits = 0
    /\ pc_trace = <<>>
    /\ call_sites = <<>>
    /\ last_instr = NoInstr
    /\ color_buffer = <<>>
    /\ depth_buffer = <<>>
    /\ draw_log = <<>>
    /\ last_tri = <<>>
    /\ last_cover = <<>>
    /\ num_tris = 0
    /\ fn_call = <<>>
    /\ fn_result = <<>>
    /\ read_pipe_count = 0
    /\ cmd_buff = <<>>
    /\ last_pipe_read = <<>>

UpdateNext ==
    \E d \in TickSteps(FramebufferHeight(g_regs)) : Update(current_ticks + d)

UpdateSpec == UpdateInit /\ [][UpdateNext]_vars

\* Positions in the effect log of the events called name.
Events(name) == {k \in 1 .. Len(effects) : effects[k].op = name}
EventsIn(name, from, to) == Cardinality({k \in Events(name) : from < k /\ k < to})
\* The events of the last Update call.
UpdateEvents(name) ==
    Cardinality({k \in Events(name) : k > last_update.effects_before})

\* C11: with a constant top-screen height h > 0, an Update signals PDC0 once
\* if and only if at least kFrameTicks / h ticks have passed since the last
\* line; it signals PDC1 with one SwapBuffers and one vblank wait, in this
\* order, exactly when the line counter reaches h, and the counter is then 0;
\* exactly h PDC0 lie between consecutive PDC1 (and before the first), and
\* g_cur_line < h after every Update.
C11_UpdatePulse ==
    last_update.seq > 0 =>
        LET h == last_update.height
            sync_line == last_update.elapsed >= kFrameTicks \div h
            line == last_update.line_before + (IF sync_line THEN 1 ELSE 0)
            first == last_update.effects_before + (IF sync_line THEN 2 ELSE 1)
        IN /\ UpdateEvents("PDC0") = (IF sync_line THEN 1 ELSE 0)
           /\ IF line = h
              THEN /\ g_cur_line = 0
                   /\ Len(effects) >= first + 2
                   /\ effects[first].op = "PDC1"
                   /\ effects[first + 1].op = "SwapBuffers"
                   /\ effects[first + 2].op = "WaitCurrentThread"
                   /\ UpdateEvents("PDC1") = 1 /\ UpdateEvents("SwapBuffers") = 1
                   /\ UpdateEvents("WaitCurrentThread") = 1
              ELSE /\ g_cur_line = line
                   /\ UpdateEvents("PDC1") = 0 /\ UpdateEvents("SwapBuffers") = 0
                   /\ UpdateEvents("WaitCurrentThread") = 0
           /\ g_cur_line < h
           /\ \A j \in Events("PDC1") :
                 LET before == {i \in Events("PDC1") : i < j}
                     prev == IF before = {} THEN 0
                             ELSE CHOOSE i \in before : \A k \in before : k <= i
                 IN EventsIn("PDC0", prev, j) = h
           /\ EventsIn("PDC0", IF Events("PDC1") = {} THEN 0
                               ELSE CHOOSE i \in Events("PDC1") :
                                       \A k \in Events("PDC1") : k <= i,
                       Len(effects) + 1) = g_cur_line

\* Two full frames of a three-line screen, with an Update in between that
\* came too early to end a line.
C11_Witness ==
    /\ last_update.height = 3
    /\ Cardinality(Events("PDC1")) = 2
    /\ Cardinality(Events("PDC0")) = 6
    /\ last_update.seq = 7
    /\ g_cur_line = 0

---------------------------------------------------------------------------
(* GPU register file: presenting a frame, plain stores                     *)

\* The register words whose write starts hardware work.
Triggers == {FillValue(0), FillValue(1), ActiveFb(0), TransferTrigger, CommandTrigger}

PresentEvents ==
    {k \in 1 .. Len(effects) : effects[k].op \in {"SwapBuffers", "WaitCurrentThread"}}

\* C12: an accepted 32-bit write to framebuffer_config[0].active_fb stores the
\* value, then calls SwapBuffers exactly once and then puts the current thread
\* into the vblank wait; a write to a register that is no trigger does neither.
C12_PresentOnActiveFb ==
    (last_access.kind = "Write" /\ last_access.accepted)
       => /\ last_access.index = ActiveFb(0)
              => /\ Reg(g_regs, ActiveFb(0)) = last_access.data
                 /\ Len(effects) = last_access.effects_before + 2
                 /\ effects[Len(effects) - 1] = Effect("SwapBuffers")
                 /\ effects[Len(effects)] = Effect("WaitCurrentThread")
          /\ last_access.index \notin Triggers
              => \A k \in PresentEvents : k <= last_access.effects_before

C12_Witness ==
    /\ last_access.kind = "Write" /\ last_access.accepted /\ last_access.seq = 2
    /\ last_access.index = ActiveFb(0) /\ last_access.data = 1
    /\ Reg(g_regs, ActiveFb(0)) = 1
    /\ effects = <<Effect("SwapBuffers"), Effect("WaitCurrentThread"),
                   Effect("SwapBuffers"), Effect("WaitCurrentThread")>>

\* C13: an accepted 32-bit write to a register index that is none of the
\* triggers changes that one register word and nothing else: every other
\* register, guest memory and the log of swaps, waits and command lists stay
\* as they were.
C13_Step ==
    (/\ last_access'.seq # last_access.seq
     /\ last_access'.kind = "Write" /\ last_access'.accepted
     /\ last_access'.index \notin Triggers)
       => /\ Reg(g_regs', last_access'.index) = last_access'.data
          /\ \A j \in (DOMAIN g_regs \cup DOMAIN g_regs') \ {last_access'.index} :
                Reg(g_regs', j) = Reg(g_regs, j)
          /\ UNCHANGED <<memory, effects>>

C13_PlainStore == [][C13_Step]_vars

C13_Witness ==
    /\ last_access.kind = "Write" /\ last_access.accepted /\ last_access.seq = 1
    /\ last_access.index = CommandSize /\ last_access.data = 2
    /\ Reg(g_regs, CommandSize) = 2 /\ Reg(g_regs, CommandAddress) = 2
    /\ effects = <<>>
    /\ \A a \in DOMAIN memory : memory[a] = (a * 3 + 1) % 256

---------------------------------------------------------------------------
(* GPU register file: the display transfer                                 *)

\* The pixels of one transfer and the bytes they occupy.
TransferPixels(regs) ==
    (0 .. Low16(Reg(regs, TransferOutputSize)) \div 2 - 1)
       \X (0 .. High16(Reg(regs, TransferOutputSize)) - 1)
SourceByte(regs, p, c) ==
    DecodeAddressRegister(Reg(regs, TransferInputAddress))
       + p[1] * 4 + (p[2] * Low16(Reg(regs, TransferInputSize)) * 4) \div 2 + c
DestByte(regs, p, c) ==
    DecodeAddressRegister(Reg(regs, TransferOutputAddress))
       + p[1] * 3 + (p[2] * Low16(Reg(regs, TransferOutputSize)) * 3) \div 2 + c
SourceBytes(regs) == {SourceByte(regs, p, c) : p \in TransferPixels(regs), c \in 0 .. 2}
DestBytes(regs) == {DestByte(regs, p, c) : p \in TransferPixels(regs), c \in 0 .. 2}

\* The step is an accepted write to display_transfer_config.trigger.
TransferWrite ==
    /\ last_access'.seq # last_access.seq
    /\ last_access'.kind = "Write" /\ last_access'.accepted
    /\ last_access'.index = TransferTrigger
RGBA8ToRGB8(regs) ==
    /\ Bits(Reg(regs, TransferFlags), 8, 3) = FormatRGBA8
    /\ Bits(Reg(regs, TransferFlags), 12, 3) = FormatRGB8

\* What the transfer has to do to guest memory.
TransferCopied ==
    /\ \A p \in TransferPixels(g_regs'), c \in 0 .. 2 :
          Byte(memory', DestByte(g_regs', p, c)) = Byte(memory, SourceByte(g_regs', p, c))
    /\ \A a \in (DOMAIN memory \cup DOMAIN memory') \ DestBytes(g_regs') :
          Byte(memory', a) = Byte(memory, a)

\* C14 (as claimed): a write to display_transfer_config.trigger with bit 0 set
\* and formats RGBA8 -> RGB8 copies, for every y < output_height and
\* x < output_width / 2, the first three bytes of source pixel (x, y) to the
\* three bytes of destination pixel (x, y), in the same order, and writes no
\* other byte; with bit 0 clear guest memory is unchanged.
C14_Step ==
    TransferWrite
       => IF last_access'.data % 2 = 1
          THEN RGBA8ToRGB8(g_regs') => TransferCopied
          ELSE memory' = memory

C14_TransferCopies == [][C14_Step]_vars

\* C14 (amended): the same, for a transfer none of whose destination bytes is
\* one of its source bytes.
C14_DisjointStep ==
    TransferWrite
       => IF last_access'.data % 2 = 1
          THEN (RGBA8ToRGB8(g_regs') /\ SourceBytes(g_regs') \cap DestBytes(g_regs') = {})
                  => TransferCopied
          ELSE memory' = memory

C14_TransferCopiesDisjoint == [][C14_DisjointStep]_vars

\* The first access runs a 2 x 2 pixel transfer from byte 24 to byte 8.
C14_Witness ==
    /\ last_access.kind = "Write" /\ last_access.accepted /\ last_access.seq = 1
    /\ last_access.index = TransferTrigger /\ last_access.data = 1
    /\ RGBA8ToRGB8(g_regs)
    /\ Reg(g_regs, TransferInputAddress) = 3 /\ Reg(g_regs, TransferOutputAddress) = 1
    /\ <<memory[8], memory[9], memory[10]>> = <<73, 76, 79>>
    /\ <<memory[11], memory[12], memory[13]>> = <<85, 88, 91>>
    /\ <<memory[14], memory[15], memory[16]>> = <<97, 100, 103>>
    /\ <<memory[17], memory[18], memory[19]>> = <<109, 112, 115>>
    /\ memory[7] = 22 /\ memory[20] = 61

---------------------------------------------------------------------------
(* Rasterizer: the per-pixel functions, called on their own                *)

FnCall(fn, op, a, b, c, undef) ==
    [fn |-> fn, op |-> op, a |-> a, b |-> b, c |-> c, undef |-> undef]

\* A call whose argument is a colour.
ColorCall(fn, op, color) == [fn |-> fn, op |-> op, color |-> color]

\* A call whose arguments are three points in rasterizer coordinates.
PointCall(fn, vtx1, vtx2, vtx3, undef) ==
    [fn |-> fn, vtx1 |-> vtx1, vtx2 |-> vtx2, vtx3 |-> vtx3, undef |-> undef]

\* Arguments the calls are drawn from.
TileCoords == 0 .. 7
TextureWidths == {8, 16}
WrapModes == {"ClampToEdge", "Repeat", "MirroredRepeat"}
WrapValues == {-2147483647, -9, -5, -1, 0, 1, 3, 4, 7, 100, 2147483647}
WrapSizes == {0, 1, 3, 4, 8}
Operations == {"Replace", "Modulate", "Add", "Lerp", "AddSigned"}
Channels == {0, 1, 50, 100, 127, 128, 200, 254, 255}
ColorModifiers == {"SourceColor", "SourceAlpha", "OneMinusSourceColor"}
AlphaModifiers == {"SourceAlpha", "OneMinusSourceAlpha", "SourceRed"}
ModifierChannels == {0, 100, 255}
FixCoords == {0, 16, 65535}      \* values of a Fix12P4 (a u16)
FixPoints == FixCoords \X FixCoords
Calls ==
    {FnCall("TexelOffset", "", sc, tc, w, 0) : sc \in TileCoords, tc \in TileCoords,
                                              w \in TextureWidths}
    \cup {FnCall("GetWrappedTexCoord", mode, val, size, 0, undef) :
             mode \in WrapModes, val \in WrapValues, size \in WrapSizes,
             undef \in UndefValues}
    \cup {FnCall("Combine", op, in0, in1, in2, 0) :
             op \in Operations, in0 \in Channels, in1 \in Channels, in2 \in Channels}
    \cup {ColorCall("GetColorModifier", factor, Color(r, g, b, a)) :
             factor \in ColorModifiers, r \in ModifierChannels, g \in ModifierChannels,
             b \in ModifierChannels, a \in ModifierChannels}
    \cup {FnCall("GetAlphaModifier", factor, a, 0, 0, 0) :
             factor \in AlphaModifiers, a \in Channels}
    \cup {PointCall("orient2d", vtx1, vtx2, vtx3, undef) :
             vtx1 \in FixPoints, vtx2 \in FixPoints, vtx3 \in FixPoints,
             undef \in UndefValues}

\* The sampler's address computation for one texel.
CallTexelOffset ==
    /\ fn_call.fn = "TexelOffset" /\ fn_result = <<>>
    /\ fn_result' = <<[index |-> TexelIndexWithinTile(fn_call.a, fn_call.b),
                       offset |-> TexelOffset(fn_call.a, fn_call.b, fn_call.c)]>>
    /\ UNCHANGED <<color_buffer, depth_buffer, draw_log, last_tri, last_cover, num_tris,
                   fn_call>>
    /\ UNCHANGED <<vs_vars, gpu_vars, dsp_vars>>

CallGetWrappedTexCoord ==
    /\ fn_call.fn = "GetWrappedTexCoord" /\ fn_result = <<>>
    /\ fn_result' = <<GetWrappedTexCoord(fn_call.op, fn_call.a, fn_call.b, fn_call.undef)>>
    /\ UNCHANGED <<color_buffer, depth_buffer, draw_log, last_tri, last_cover, num_tris,
                   fn_call>>
    /\ UNCHANGED <<vs_vars, gpu_vars, dsp_vars>>

CallCombine ==
    /\ fn_call.fn = "Combine" /\ fn_result = <<>>
    /\ fn_result' = <<Combine(fn_call.op, fn_call.a, fn_call.b, fn_call.c)>>
    /\ UNCHANGED <<color_buffer, depth_buffer, draw_log, last_tri, last_cover, num_tris,
                   fn_call>>
    /\ UNCHANGED <<vs_vars, gpu_vars, dsp_vars>>

\* An int is 32 bits wide (the build orient2d's comment speaks of).
MaxInt == 2147483647

\* Whether p * q and p - q have a value an int can hold (p, q are ints).
MulFits(p, q) == q = 0 \/ Abs(p) <= MaxInt \div Abs(q)
SubFits(p, q) ==
    IF q < 0 THEN p <= MaxInt + q
    ELSE IF q > 0 THEN p >= (-MaxInt - 1) + q
    ELSE TRUE

\* The two products of Cross(vec1, vec2).z, as pairs of factors.
CrossFactors(vtx1, vtx2, vtx3) ==
    <<<<vtx2[1] - vtx1[1], vtx3[2] - vtx1[2]>>, <<vtx2[2] - vtx1[2], vtx3[1] - vtx1[1]>>>>

\* orient2d with the int arithmetic of the code: a signed overflow is
\* undefined, any value may result.
Orient2dInt(vtx1, vtx2, vtx3, undef) ==
    LET f == CrossFactors(vtx1, vtx2, vtx3)
        fits == /\ MulFits(f[1][1], f[1][2]) /\ MulFits(f[2][1], f[2][2])
                /\ SubFits(f[1][1] * f[1][2], f[2][1] * f[2][2])
    IN [overflow |-> ~fits,
        z |-> IF fits THEN orient2d(vtx1, vtx2, vtx3) ELSE undef]

CallOrient2d ==
    /\ fn_call.fn = "orient2d" /\ fn_result = <<>>
    /\ fn_result' = <<Orient2dInt(fn_call.vtx1, fn_call.vtx2, fn_call.vtx3,
                                  fn_call.undef)>>
    /\ UNCHANGED <<color_buffer, depth_buffer, draw_log, last_tri, last_cover, num_tris,
                   fn_call>>
    /\ UNCHANGED <<vs_vars, gpu_vars, dsp_vars>>

\* A colour term of a stage: the modifier applied to the source it was given.
CallGetColorModifier ==
    /\ fn_call.fn = "GetColorModifier" /\ fn_result = <<>>
    /\ fn_result' = <<GetColorModifier(fn_call.op, fn_call.color)>>
    /\ UNCHANGED <<color_buffer, depth_buffer, draw_log, last_tri, last_cover, num_tris,
                   fn_call>>
    /\ UNCHANGED <<vs_vars, gpu_vars, dsp_vars>>

CallGetAlphaModifier ==
    /\ fn_call.fn = "GetAlphaModifier" /\ fn_result = <<>>
    /\ fn_result' = <<GetAlphaModifier(fn_call.op, fn_call.a)>>
    /\ UNCHANGED <<color_buffer, depth_buffer, draw_log, last_tri, last_cover, num_tris,
                   fn_call>>
    /\ UNCHANGED <<vs_vars, gpu_vars, dsp_vars>>

PixelFnInit ==
    /\ fn_call \in Calls
    /\ fn_result = <<>>
    /\ color_buffer = <<>>
    /\ depth_buffer = <<>>
    /\ draw_log = <<>>
    /\ last_tri = <<>>
    /\ last_cover = <<>>
    /\ num_tris = 0
    /\ g_regs = <<>>
    /\ memory = <<>>
    /\ last_access = <<>>
    /\ effects = <<>>
    /\ g_cur_line = 0
    /\ g_last_line_ticks = 0
    /\ current_ticks = 0
    /\ last_update = <<>>
    /\ shader_memory = <<>>
    /\ swizzle_data = <<>>
    /\ shader_uniforms = <<>>
    /\ registers = <<>>
    /\ vs_status = "idle"
    /\ state = NoState
    /\ input = <<>>
    /\ dummy_register = <<>>
    /\ ret = <<>>
    /\ vs_ub = "none"
    /\ submits = 0
    /\ pc_trace = <<>>
    /\ call_sites = <<>>
    /\ last_instr = NoInstr
    /\ read_pipe_count = 0
    /\ cmd_buff = <<>>
    /\ last_pipe_read = <<>>

PixelFnNext ==
    \/ CallTexelOffset
    \/ CallGetWrappedTexCoord
    \/ CallCombine
    \/ CallGetColorModifier
    \/ CallGetAlphaModifier
    \/ CallOrient2d

PixelFnSpec == PixelFnInit /\ [][PixelFnNext]_vars

Returned(fn) == fn_call.fn = fn /\ fn_result # <<>>

\* The tile layout drawn in the sampler, top row (t = 7) first.
MortonTable ==
    <<<<42, 43, 46, 47, 58, 59, 62, 63>>,
      <<40, 41, 44, 45, 56, 57, 60, 61>>,
      <<34, 35, 38, 39, 50, 51, 54, 55>>,
      <<32, 33, 36, 37, 48, 49, 52, 53>>,
      <<10, 11, 14, 15, 26, 27, 30, 31>>,
      << 8,  9, 12, 13, 24, 25, 28, 29>>,
      << 2,  3,  6,  7, 18, 19, 22, 23>>,
      << 0,  1,  4,  5, 16, 17, 20, 21>>>>

Bit(v, b) == (v \div 2 ^ b) % 2

\* C15: for 0 <= s, t < 8 the sampler's texel_index_within_tile is the entry of
\* the 8 x 8 Morton table at column s, row t (row 0 at the bottom), which is
\* s0 + 2 t0 + 4 s1 + 8 t1 + 16 s2 + 32 t2; the 64 pairs map one-to-one onto
\* 0 .. 63; and the texel's bytes are read at offset 3 * index in the tile.
C15_MortonIndex ==
    Returned("TexelOffset")
       => LET sc == fn_call.a
              tc == fn_call.b
              index == fn_result[1].index
          IN /\ index = MortonTable[8 - tc][sc + 1]
             /\ index = Bit(sc, 0) + 2 * Bit(tc, 0) + 4 * Bit(sc, 1) + 8 * Bit(tc, 1)
                        + 16 * Bit(sc, 2) + 32 * Bit(tc, 2)
             /\ index \in 0 .. 63
             /\ \A s2 \in TileCoords, t2 \in TileCoords :
                   TexelIndexWithinTile(s2, t2) = index => <<s2, t2>> = <<sc, tc>>
             /\ {TexelIndexWithinTile(s2, t2) : s2 \in TileCoords, t2 \in TileCoords}
                   = 0 .. 63
             /\ fn_result[1].offset = 3 * index

C15_Witness ==
    /\ Returned("TexelOffset")
    /\ fn_call.a = 5 /\ fn_call.b = 6 /\ fn_call.c = 16
    /\ fn_result[1] = [index |-> 57, offset |-> 171]

\* ((unsigned 32-bit) val) mod size, from 2^32 = 2 * (2^31 - 1) + 2
UnsignedMod(val, size) ==
    IF val >= 0 THEN val % size
    ELSE ((val % size) + 2 * (2147483647 % size) + 2) % size

\* C16: for size >= 1 GetWrappedTexCoord returns clamp(val, 0, size - 1) under
\* ClampToEdge and ((unsigned 32-bit) val) mod size under Repeat, so the result
\* lies in 0 .. size - 1; on a 4-wide texture -1 maps to 3 under Repeat and to
\* 0 under ClampToEdge.
C16_WrappedTexCoord ==
    (Returned("GetWrappedTexCoord") /\ fn_call.b >= 1
     /\ fn_call.op \in {"ClampToEdge", "Repeat"})
       => LET val == fn_call.a
              size == fn_call.b
              r == fn_result[1]
          IN /\ fn_call.op = "ClampToEdge"
                 => r = (IF val < 0 THEN 0 ELSE IF val > size - 1 THEN size - 1 ELSE val)
             /\ fn_call.op = "Repeat" => r = UnsignedMod(val, size)
             /\ r \in 0 .. size - 1
             /\ (val = -1 /\ size = 4)
                 => r = (IF fn_call.op = "Repeat" THEN 3 ELSE 0)

C16_Witness ==
    /\ Returned("GetWrappedTexCoord")
    /\ fn_call.op = "Repeat" /\ fn_call.a = -1 /\ fn_call.b = 4
    /\ fn_result = <<3>>

\* C17: for all 8-bit inputs each colour channel and the alpha channel compute
\* Replace = in0, Modulate = (in0 * in1) / 255, Add = min(in0 + in1, 255),
\* Lerp = (in0 * in2 + in1 * (255 - in2)) / 255, divisions truncating; so
\* Modulate of (200, 100, 50, 255) with (128, 128, 128, 255) is
\* (100, 50, 25, 255).
C17_CombinerOps ==
    Returned("Combine")
       => LET in0 == fn_call.a
              in1 == fn_call.b
              in2 == fn_call.c
              r == fn_result[1]
          IN /\ fn_call.op = "Replace" => r = in0
             /\ fn_call.op = "Modulate" => r = (in0 * in1) \div 255
             /\ fn_call.op = "Add" => r = (IF in0 + in1 > 255 THEN 255 ELSE in0 + in1)
             /\ fn_call.op = "Lerp" => r = (in0 * in2 + in1 * (255 - in2)) \div 255
             /\ (fn_call.op = "Modulate" /\ in1 = 128)
                 => /\ in0 = 200 => r = 100
                    /\ in0 = 100 => r = 50
                    /\ in0 = 50 => r = 25
             /\ (fn_call.op = "Modulate" /\ in0 = 255 /\ in1 = 255) => r = 255

---------------------------------------------------------------------------
(* GPU: Init() after register writes and shader uploads                    *)

\* void Init(): the line counter restarts and the framebuffer defaults are
\* stored; nothing else is assigned.
Init ==
    /\ last_access.seq < MaxAccesses
    /\ g_cur_line' = 0
    /\ g_last_line_ticks' = current_ticks
    /\ g_regs' = GpuHwInit(g_regs)
    /\ last_access' = Access("Init", 0, GpuRegBase, 0, 0, 0, TRUE)
    /\ UNCHANGED <<memory, effects, current_ticks, last_update>>
    /\ UNCHANGED <<vs_vars, raster_vars, dsp_vars>>

\* Register writes made before a reset.
ResetWriteAddrs == {RegAddr(0), RegAddr(CommandSize), RegAddr(ActiveFb(1))}
ResetWriteValues == {0, 3}

ResetInit ==
    /\ g_regs = GpuHwInit(<<>>)
    /\ memory = [a \in 0 .. GuestBytes - 1 |-> 0]
    /\ last_access = [kind |-> "Init", width |-> 0, raw_addr |-> GpuRegBase, index |-> 0,
                      data |-> 0, var_in |-> 0, var |-> 0, accepted |-> TRUE,
                      seq |-> 0, effects_before |-> 0]
    /\ effects = <<>>
    /\ g_cur_line = 0
    /\ g_last_line_ticks = 0
    /\ current_ticks = 0
    /\ last_update = <<>>
    /\ shader_memory = <<>>
    /\ swizzle_data = <<>>
    /\ shader_uniforms = <<>>
    /\ registers = <<>>
    /\ vs_status = "idle"
    /\ state = NoState
    /\ input = <<>>
    /\ dummy_register = <<>>
    /\ ret = <<>>
    /\ vs_ub = "none"
    /\ submits = 0
    /\ pc_trace = <<>>
    /\ call_sites = <<>>
    /\ last_instr = NoInstr
    /\ color_buffer = <<>>
    /\ depth_buffer = <<>>
    /\ draw_log = <<>>
    /\ last_tri = <<>>
    /\ last_cover = <<>>
    /\ num_tris = 0
    /\ fn_call = <<>>
    /\ fn_result = <<>>
    /\ read_pipe_count = 0
    /\ cmd_buff = <<>>
    /\ last_pipe_read = <<>>

ResetNext ==
    \/ \E a \in ResetWriteAddrs, d \in ResetWriteValues : Write(32, a, d)
    \/ \E a \in SubmitAddrs, v \in SubmitInstrs : SubmitShaderMemoryChange(a, v)
    \/ \E a \in SubmitSwizzleAddrs, v \in SubmitSwizzles : SubmitSwizzleDataChange(a, v)
    \/ Init

ResetSpec == ResetInit /\ [][ResetNext]_vars

\* The register words Init() assigns.
InitWords == DOMAIN GpuHwInit(<<>>)

\* C18: after a reset (GPU Init) every word of the register file, apart from
\* the framebuffer defaults the reset stores, and every word of shader memory
\* and of swizzle memory is cleared, whatever writes and submissions came
\* before.
C18_ResetClears ==
    (last_access.kind = "Init" /\ last_access.seq > 0)
       => /\ \A i \in DOMAIN g_regs \ InitWords : g_regs[i] = 0
          /\ \A i \in DOMAIN shader_memory : shader_memory[i] = ZeroInstr
          /\ \A i \in DOMAIN swizzle_data : swizzle_data[i] = ZeroSwizzle

---------------------------------------------------------------------------
(* Vertex shader: RCP and RSQ                                              *)

\* C19: RCP writes to every enabled destination lane the one value 1 / src1.x,
\* taken from lane 0 of the swizzled source, and RSQ likewise 1 / sqrt(src1.x);
\* the value written does not depend on source lanes 1 .. 3, and a zero source
\* does not trap.  Checked on  op o0, v0, v0  with the identity swizzle and
\* the identity input/output map.
C19_Step ==
    LET instr == Word(shader_memory, state.program_counter, ZeroInstr)
        swizzle == Word(swizzle_data, instr.operand_desc_id, ZeroSwizzle)
        x == input.attr[0][0]
    IN (/\ vs_status = "running"
        /\ state.program_counter < ShaderMemoryWords
        /\ instr.opcode \in {"RCP", "RSQ"}
        /\ instr.dest = 0 /\ instr.src1 = 0
        /\ swizzle.selector_src1 = IdSel /\ ~swizzle.negate_src1
        /\ IdentityIoMap /\ input.num_attributes >= 1)
       => /\ vs_status' = "running" /\ vs_ub' = "none"
          /\ \A l \in swizzle.dest_mask :
                ret'[l] = IF instr.opcode = "RCP" THEN FDiv(F(1), x)
                          ELSE FDiv(F(1), FSqrt(x))

C19_ScalarReciprocal == [][C19_Step]_vars

---------------------------------------------------------------------------
(* DSP service: ReadPipeIfPossible                                         *)

MaxPipeReads == 3

\* static const std::vector<u16> canned_read_pipe
canned_read_pipe ==
    <<15, 49151, 40590, 34432, 42894, 37936, 33792, 34112,
      38030, 34576, 33808, 43278, 43534, 43726, 44110, 44120>>

\* Memory::Write16(vaddr, data), little endian
Write16(mem, vaddr, data) ==
    StoreByte(StoreByte(mem, vaddr, data % 256), vaddr + 1, data \div 256)

\* for (offset = 0; offset < size; offset += sizeof(u16)), from offset on:
\* the memory, the counter and the stores made when the loop ends
RECURSIVE PipeLoopFrom(_, _, _, _, _, _)
PipeLoopFrom(mem, addr, size, count, offset, stores) ==
    IF offset >= size THEN [mem |-> mem, count |-> count, stores |-> stores]
    ELSE IF count < Len(canned_read_pipe)
    THEN PipeLoopFrom(Write16(mem, addr + offset, canned_read_pipe[count + 1]),
                      addr, size, count + 1, offset + 2,
                      Append(stores, [vaddr |-> addr + offset, index |-> count]))
    ELSE PipeLoopFrom(mem, addr, size, count + 1, offset + 2, stores)

PipeLoop(mem, addr, size, count) == PipeLoopFrom(mem, addr, size, count, 0, <<>>)

\* void ReadPipeIfPossible(Service::Interface* self), called with cmd_buff[3]
\* = size_word and cmd_buff[0x41] = addr
ReadPipeIfPossible(size_word, addr) ==
    /\ last_pipe_read.seq < MaxPipeReads
    /\ \E r \in {PipeLoop(memory, addr, size_word % 65536, read_pipe_count)} :
          /\ memory' = r.mem
          /\ read_pipe_count' = r.count
          /\ cmd_buff' = (1 :> 0) @@ (2 :> (r.count - read_pipe_count) * 2)
                         @@ (3 :> size_word) @@ (65 :> addr) @@ cmd_buff
          /\ last_pipe_read' = [seq |-> last_pipe_read.seq + 1,
                                initial_size |-> read_pipe_count,
                                stores |-> r.stores]
    /\ UNCHANGED <<g_regs, last_access, effects, g_cur_line, g_last_line_ticks,
                   current_ticks, last_update>>
    /\ UNCHANGED <<vs_vars, raster_vars>>

\* Read sizes (cmd_buff[3]; only the lower half word counts) and buffers.
PipeSizeWords == {0, 2, 3, 8, 14, 65536 + 4}
PipeBuffers == {0, 16}

DspInit ==
    /\ read_pipe_count = 0
    /\ cmd_buff = <<>>
    /\ last_pipe_read = [seq |-> 0, initial_size |-> 0, stores |-> <<>>]
    /\ memory = [a \in 0 .. GuestBytes - 1 |-> 0]
    /\ g_regs = <<>>
    /\ last_access = <<>>
    /\ effects = <<>>
    /\ g_cur_line = 0
    /\ g_last_line_ticks = 0
    /\ current_ticks = 0
    /\ last_update = <<>>
    /\ shader_memory = <<>>
    /\ swizzle_data = <<>>
    /\ shader_uniforms = <<>>
    /\ registers = <<>>
    /\ vs_status = "idle"
    /\ state = NoState
    /\ input = <<>>
    /\ dummy_register = <<>>
    /\ ret = <<>>
    /\ vs_ub = "none"
    /\ submits = 0
    /\ pc_trace = <<>>
    /\ call_sites = <<>>
    /\ last_instr = NoInstr
    /\ color_buffer = <<>>
    /\ depth_buffer = <<>>
    /\ draw_log = <<>>
    /\ last_tri = <<>>
    /\ last_cover = <<>>
    /\ num_tris = 0
    /\ fn_call = <<>>
    /\ fn_result = <<>>

DspNext == \E w \in PipeSizeWords, a \in PipeBuffers : ReadPipeIfPossible(w, a)

DspSpec == DspInit /\ [][DspNext]_vars

\* C20 (as claimed): output word 2 of every ReadPipeIfPossible call is the
\* number of bytes read from the pipe, twice the number of canned words the
\* call stored to guest memory; a call made when the 16 canned words are used
\* up reports 0 bytes and stores nothing; and the canned table is never
\* indexed at or beyond its size.
C20_BytesRead ==
    last_pipe_read.seq > 0
       => /\ Word(cmd_buff, 2, 0) = 2 * Len(last_pipe_read.stores)
          /\ last_pipe_read.initial_size >= Len(canned_read_pipe)
                => Word(cmd_buff, 2, 0) = 0 /\ last_pipe_read.stores = <<>>
          /\ \A k \in 1 .. Len(last_pipe_read.stores) :
                last_pipe_read.stores[k].index < Len(canned_read_pipe)

---------------------------------------------------------------------------
(* Vertex shader: CALL and END, step by step                               *)

\* The instruction the step executes, and the step runs it to its end.
Fetched == Word(shader_memory, state.program_counter, ZeroInstr)
Executes(ops) ==
    /\ vs_status = "running"
    /\ state.program_counter < ShaderMemoryWords
    /\ Fetched.opcode \in ops
    /\ vs_status' # "undefined"

\* C21 (as claimed): a CALL at program counter p pushes p + 1 onto the call
\* stack and sets the program counter to flow_control.dest_offset, with no
\* increment after it.
C21_Step ==
    Executes({"CALL"})
       => /\ state'.call_stack_pointer = state.call_stack_pointer + 1
          /\ state'.call_stack[state'.call_stack_pointer] = state.program_counter + 1
          /\ state'.program_counter = Fetched.dest_offset

C21_CallPushesNext == [][C21_Step]_vars

\* C21 (amended): a CALL at program counter p pushes p itself and sets the
\* program counter to flow_control.dest_offset, with no increment after it;
\* no other call stack entry changes.
C21_AddressStep ==
    Executes({"CALL"})
       => /\ state'.call_stack_pointer = state.call_stack_pointer + 1
          /\ state'.call_stack[state'.call_stack_pointer] = state.program_counter
          /\ \A k \in 0 .. CallStackSize - 1 :
                k # state'.call_stack_pointer => state'.call_stack[k] = state.call_stack[k]
          /\ state'.program_counter = Fetched.dest_offset
          /\ vs_status' = "running"

C21_CallPushesOwnAddress == [][C21_AddressStep]_vars

\* CALL 3 at address 0 has just been executed.
C21_Witness ==
    /\ vs_status = "running" /\ Loaded(ProgCallEnd)
    /\ last_instr.pc = 0 /\ last_instr.instr.opcode = "CALL"
    /\ state.call_stack_pointer = 1 /\ state.call_stack[1] = 0
    /\ state.program_counter = 3

\* END on an empty call stack ends the loop, and nothing else does.
EndTerminates ==
    /\ (Executes({"END"}) /\ state.call_stack[state.call_stack_pointer] = INVALID_ADDRESS)
          => vs_status' = "done"
    /\ (vs_status = "running" /\ vs_status' = "done")
          => /\ state.program_counter < ShaderMemoryWords
             /\ Fetched.opcode = "END"
             /\ state.call_stack[state.call_stack_pointer] = INVALID_ADDRESS

\* END with a return address on top pops it.
EndPops ==
    (Executes({"END"}) /\ state.call_stack[state.call_stack_pointer] # INVALID_ADDRESS)
       => /\ vs_status' = "running"
          /\ state'.call_stack_pointer = state.call_stack_pointer - 1
          /\ state'.call_stack[state.call_stack_pointer] = INVALID_ADDRESS

\* C22 (as claimed): END with INVALID_ADDRESS on top of the call stack ends
\* ProcessShaderCode, and only that does; otherwise END pops the top entry,
\* leaving INVALID_ADDRESS in its place, and the next instruction fetched is
\* the one at the popped address, with no increment.
C22_Step ==
    /\ EndTerminates
    /\ EndPops
    /\ (Executes({"END"}) /\ state.call_stack[state.call_stack_pointer] # INVALID_ADDRESS)
          => state'.program_counter = state.call_stack[state.call_stack_pointer]

C22_EndResumesAtPopped == [][C22_Step]_vars

\* C22 (amended): the same, but the next instruction fetched is the one after
\* the popped address.
C22_NextStep ==
    /\ EndTerminates
    /\ EndPops
    /\ (Executes({"END"}) /\ state.call_stack[state.call_stack_pointer] # INVALID_ADDRESS)
          => state'.program_counter = state.call_stack[state.call_stack_pointer] + 1

C22_EndResumesAfterPopped == [][C22_NextStep]_vars

\* The END of the subroutine called from address 0 has just been executed.
C22_Witness ==
    /\ vs_status = "running" /\ Loaded(ProgCallEnd)
    /\ last_instr.instr.opcode = "END" /\ last_instr.resumed_from = 0
    /\ state.call_stack_pointer = 0 /\ state.call_stack[1] = INVALID_ADDRESS
    /\ state.program_counter = 1

---------------------------------------------------------------------------
(* Vertex shader: where the arithmetic instructions store                  *)

FetchedSwizzle == Word(swizzle_data, Fetched.operand_desc_id, ZeroSwizzle)
\* The value the fetched instruction computes for component c.
FetchedValue(c) ==
    LaneValue(Fetched.opcode, Src1(state, Fetched, FetchedSwizzle),
              Src2(state, Fetched, FetchedSwizzle), c)

\* C23 (as claimed): a write to output register a < 7, component c, lands in
\* the output vertex lane named by vs_output_attributes[a].map_c, for each
\* written component on its own and for every setting of the four map codes.
\* (A lane that two written components are mapped to is left out.)
C23_Step ==
    (Executes(ArithmeticOps) /\ Fetched.dest < 7)
       => LET map == registers.vs_output_attributes[Fetched.dest]
              written == WrittenLanes(Fetched.opcode, FetchedSwizzle)
          IN \A c \in written :
                (\A d \in written \ {c} : map[d] # map[c])
                   => ret'[map[c]] = FetchedValue(c)

C23_OutputMap == [][C23_Step]_vars

\* The lanes of the destination register of the fetched instruction, before
\* and after the step; registers reached through the identity output map.
DestRegister(st, out) ==
    IF Fetched.dest < 7
    THEN [c \in Lanes |-> out[registers.vs_output_attributes[Fetched.dest][c]]]
    ELSE st.temporary_registers[Fetched.dest - 16]
PlainDest ==
    \/ Fetched.dest = 0 /\ registers.vs_output_attributes = OutputMapIdentity
    \/ Fetched.dest \in 16 .. 31

\* C24 (as claimed): DP3 (DP4) writes the dot product of the first 3 (4)
\* swizzled lanes of src1 and src2 to every destination lane enabled in the
\* mask, lane w included for DP3, and leaves the other lanes as they were;
\* DP4 of a register with itself leaves the sum of the squares of its four
\* components in every enabled lane.
C24_Step ==
    (Executes({"DP3", "DP4"}) /\ PlainDest)
       => LET src1 == Src1(state, Fetched, FetchedSwizzle)
              src2 == Src2(state, Fetched, FetchedSwizzle)
              dot3 == FAdd(FAdd(FMul(src1[0], src2[0]), FMul(src1[1], src2[1])),
                           FMul(src1[2], src2[2]))
              dot == IF Fetched.opcode = "DP3" THEN dot3
                     ELSE FAdd(dot3, FMul(src1[3], src2[3]))
          IN \A c \in Lanes :
                DestRegister(state', ret')[c] =
                   IF c \in FetchedSwizzle.dest_mask THEN dot
                   ELSE DestRegister(state, ret)[c]

C24_DotBroadcast == [][C24_Step]_vars

\* C25 (as claimed): an arithmetic instruction whose destination field lies
\* in a reserved range (0x08 <= dest < 0x10 or dest >= 0x20) writes nothing:
\* output vertex, temporary registers, status registers and call stack stay
\* as they are, no invalid address is written, and execution goes on at
\* PC + 1.
C25_Step ==
    (/\ vs_status = "running"
     /\ state.program_counter < ShaderMemoryWords
     /\ Fetched.opcode \in ArithmeticOps
     /\ (Fetched.dest \in 8 .. 15 \/ Fetched.dest >= 32))
       => /\ vs_status' = "running" /\ vs_ub' = "none"
          /\ ret' = ret
          /\ state'.temporary_registers = state.temporary_registers
          /\ state'.status_registers = state.status_registers
          /\ state'.call_stack = state.call_stack
          /\ state'.call_stack_pointer = state.call_stack_pointer
          /\ state'.program_counter = state.program_counter + 1

C25_ReservedDestNoOp == [][C25_Step]_vars

\* C26: an instruction whose opcode is none of ADD, MUL, DP3, DP4, RCP, RSQ,
\* MOV, CALL, END, NOP is treated as NOP: temporary registers, output vertex,
\* status registers and call stack are unchanged, the program counter
\* advances by exactly 1 and execution continues.
C26_Step ==
    (/\ vs_status = "running"
     /\ state.program_counter < ShaderMemoryWords
     /\ Fetched.opcode \notin {"ADD", "MUL", "DP3", "DP4", "RCP", "RSQ", "MOV",
                               "CALL", "END", "NOP"})
       => /\ vs_status' = "running" /\ vs_ub' = "none"
          /\ ret' = ret
          /\ state'.temporary_registers = state.temporary_registers
          /\ state'.status_registers = state.status_registers
          /\ state'.call_stack = state.call_stack
          /\ state'.call_stack_pointer = state.call_stack_pointer
          /\ state'.program_counter = state.program_counter + 1

C26_UnknownOpcodeIsNop == [][C26_Step]_vars

\* MAX, uploaded to address 1 behind an RCP, has just been executed.
C26_Witness ==
    /\ vs_status = "running"
    /\ last_instr.pc = 1 /\ last_instr.instr.opcode = "MAX"
    /\ Word(shader_memory, 0, ZeroInstr).opcode = "RCP"
    /\ state.program_counter = 2
    /\ pc_trace = <<0, 1>>

---------------------------------------------------------------------------
(* Rasterizer: the fill rule on an edge two triangles share                 *)

\* The edges of a triangle, each from a vertex to the next one.
Edges(t) ==
    {<<t.vtxpos[1], t.vtxpos[2]>>, <<t.vtxpos[2], t.vtxpos[3]>>,
     <<t.vtxpos[3], t.vtxpos[1]>>}
Winding(t) == orient2d(t.vtxpos[1], t.vtxpos[2], t.vtxpos[3])
\* Edges of t that u runs through in the opposite direction: with the same
\* winding the two triangles then lie on opposite sides of the edge.
SharedEdges(t, u) ==
    IF Winding(t) > 0 /\ Winding(u) > 0
    THEN {e \in Edges(t) : e[1] # e[2] /\ <<e[2], e[1]>> \in Edges(u)}
    ELSE {}
OnEdge(e, x, y) ==
    /\ orient2d(e[1], e[2], <<x, y>>) = 0
    /\ Min(e[1][1], e[2][1]) <= x /\ x <= Max(e[1][1], e[2][1])
    /\ Min(e[1][2], e[2][2]) <= y /\ y <= Max(e[1][2], e[2][2])
InBox(t, x, y) ==
    /\ t.min_x <= x /\ x < t.max_x
    /\ t.min_y <= y /\ y < t.max_y
DrawnAt(log, x, y) ==
    \E i \in 1 .. Len(log) : log[i] = [op |-> "DrawPixel", x |-> x \div 16, y |-> y \div 16]
\* Sample points: both coordinates multiples of 16.
SampleCoords == {16 * i : i \in 0 .. 7}
SharedSamples(t, u) ==
    {p \in SampleCoords \X SampleCoords :
        /\ \E e \in SharedEdges(t, u) : OnEdge(e, p[1], p[2])
        /\ InBox(t, p[1], p[2]) /\ InBox(u, p[1], p[2])}

C27_Step ==
    (num_tris >= 1 /\ num_tris' = num_tris + 1) =>
        \A p \in SharedSamples(last_tri, last_tri') :
            DrawnAt(draw_log, p[1], p[2]) # DrawnAt(draw_log', p[1], p[2])
\* C27: of two triangles of the drawn winding that share an edge, drawn one
\* after the other, exactly one draws each sample point that lies on the
\* shared edge and inside both bounding boxes.
C27_SharedEdgeOnce == [][C27_Step]_vars

---------------------------------------------------------------------------
(* Rasterizer: the texture units and the combiner stages of a covered pixel *)

\* Registers with all six stages given.
TevRegisters(units, stages) ==
    [framebuffer |-> [width |-> FbWidth, height |-> FbHeight],
     textures |-> units, tev_stages |-> stages]

\* Units of different sizes and wrap modes over the same texels; the enable
\* bit of units 0 and 1 is clear, that of unit 2 is set.
MixedUnits ==
    (0 :> TextureUnit(FALSE, 1, 4, 4, "Repeat", "ClampToEdge"))
    @@ (1 :> TextureUnit(FALSE, 1, 8, 8, "ClampToEdge", "Repeat"))
    @@ (2 :> TextureUnit(TRUE, 1, 8, 8, "Repeat", "Repeat"))

\* Stages that add up the three units.
TextureStages ==
    <<StageReplace("Texture0"),
      Stage(<<"Previous", "Texture1", "Constant">>, Three("SourceColor"), "Add",
            <<"Previous", "Texture1", "Constant">>, Three("SourceAlpha"), "Modulate",
            ZeroColor),
      Stage(<<"Previous", "Texture2", "Constant">>, Three("SourceColor"), "Add",
            <<"Texture2", "Previous", "Constant">>, Three("SourceAlpha"), "Replace",
            ZeroColor),
      PassThrough, PassThrough, PassThrough>>

\* Six different stages, each reading the one before it.
ChainStages ==
    <<StageReplace("PrimaryColor"),
      Stage(<<"Previous", "Constant", "Constant">>, Three("SourceColor"), "Modulate",
            <<"Previous", "Constant", "Constant">>, Three("SourceAlpha"), "Add",
            Color(128, 255, 64, 64)),
      Stage(<<"Previous", "Texture0", "Constant">>, Three("SourceColor"), "Add",
            <<"Previous", "Previous", "Previous">>,
            <<"OneMinusSourceAlpha", "SourceAlpha", "SourceAlpha">>, "Replace",
            ZeroColor),
      Stage(<<"Constant", "Previous", "PrimaryColor">>, Three("SourceColor"), "Lerp",
            <<"Previous", "Constant", "Constant">>, Three("SourceAlpha"), "Modulate",
            Color(255, 0, 255, 128)),
      Stage(<<"Previous", "Constant", "Constant">>, Three("SourceColor"), "Add",
            <<"Constant", "Previous", "PrimaryColor">>, Three("SourceAlpha"), "Lerp",
            Color(16, 32, 48, 200)),
      Stage(<<"Previous", "PrimaryColor", "Constant">>, Three("SourceColor"), "Modulate",
            <<"Previous", "Constant", "Constant">>, Three("SourceAlpha"), "Add",
            Color(0, 0, 0, 1))>>

\* Stages with a source, a modifier or an operation outside the enumerations.
UnknownStages ==
    <<Stage(<<"PrimaryColor", "Source7", "Constant">>, Three("SourceColor"), "Add",
            <<"PrimaryColor", "Constant", "Constant">>, Three("SourceAlpha"), "Add",
            Color(10, 20, 30, 40)),
      Stage(<<"Previous", "Constant", "Constant">>,
            <<"SourceColor", "Modifier9", "SourceColor">>, "Add",
            <<"Previous", "Source7", "Constant">>, Three("SourceAlpha"), "Add",
            Color(1, 2, 3, 4)),
      Stage(<<"Previous", "Constant", "Constant">>, Three("SourceColor"), "Add",
            <<"Previous", "Constant", "Constant">>,
            <<"SourceAlpha", "Modifier9", "SourceAlpha">>, "Add",
            Color(5, 6, 7, 8)),
      Stage(<<"Previous", "Constant", "Constant">>, Three("SourceColor"), "Operation9",
            <<"Previous", "Constant", "Constant">>, Three("SourceAlpha"), "Add",
            Color(9, 9, 9, 9)),
      Stage(<<"PrimaryColor", "Constant", "Constant">>, Three("SourceColor"), "Add",
            <<"Previous", "Constant", "Constant">>, Three("SourceAlpha"), "Operation9",
            Color(3, 3, 3, 3)),
      Stage(<<"Previous", "Constant", "Constant">>, Three("SourceColor"), "Replace",
            <<"PrimaryColor", "Source7", "Constant">>,
            <<"SourceAlpha", "OneMinusSourceAlpha", "SourceAlpha">>, "Add",
            Color(0, 0, 0, 0))>>

TevRegisterSettings ==
    {TevRegisters(MixedUnits, TextureStages),
     TevRegisters(MixedUnits, ChainStages),
     TevRegisters([i \in 0 .. 2 |-> IF i = 0 THEN SampledUnit ELSE SkippedUnit],
                  ChainStages),
     TevRegisters(MixedUnits, UnknownStages)}

\* The two triangles that fill the framebuffer, in both windings.
TevTrianglePositions ==
    {<<Pt(F(0), F(0)), Pt(F(4), F(0)), Pt(F(0), F(4))>>,
     <<Pt(F(0), F(0)), Pt(F(0), F(4)), Pt(F(4), F(0))>>,
     <<Pt(F(4), F(0)), Pt(F(4), F(4)), Pt(F(0), F(4))>>,
     <<Pt(F(4), F(0)), Pt(F(0), F(4)), Pt(F(4), F(4))>>}

TevInit ==
    /\ shader_memory = <<>>
    /\ swizzle_data = <<>>
    /\ shader_uniforms = <<>>
    /\ registers \in TevRegisterSettings
    /\ vs_status = "idle"
    /\ state = NoState
    /\ input = <<>>
    /\ dummy_register = <<>>
    /\ ret = <<>>
    /\ vs_ub = "none"
    /\ submits = 0
    /\ pc_trace = <<>>
    /\ call_sites = <<>>
    /\ last_instr = NoInstr
    /\ g_regs = <<>>
    /\ memory = [a \in 0 .. 8 + 8 * 8 * 3 - 1 |-> (a * 7 + 5) % 256]
    /\ last_access = <<>>
    /\ effects = <<>>
    /\ color_buffer = <<>>
    /\ depth_buffer = <<>>
    /\ draw_log = <<>>
    /\ last_tri = <<>>
    /\ last_cover = <<>>
    /\ num_tris = 0
    /\ g_cur_line = 0
    /\ g_last_line_ticks = 0
    /\ current_ticks = 0
    /\ last_update = <<>>
    /\ fn_call = <<>>
    /\ fn_result = <<>>
    /\ read_pipe_count = 0
    /\ cmd_buff = <<>>
    /\ last_pipe_read = <<>>

TevNext ==
    /\ num_tris < MaxTris
    /\ \E pos \in TevTrianglePositions, pal \in Palettes, undef \in UndefValues :
          ProcessTriangle(TriangleVertex(pos, pal, 1), TriangleVertex(pos, pal, 2),
                          TriangleVertex(pos, pal, 3), undef)

TevSpec == TevInit /\ [][TevNext]_vars

\* The pixels the last triangle covered, with what Shade produced there.
CoveredPixels ==
    {p \in DOMAIN last_cover :
        \E i \in 1 .. Len(draw_log) : draw_log[i] = [op |-> "DrawPixel", x |-> p[1], y |-> p[2]]}
Units == 0 .. 2
OpaqueBlack == Color(0, 0, 0, 255)

\* C28: at every covered pixel, a unit is read from guest memory exactly if
\* its enable bit is set, and a unit whose enable bit is clear yields opaque
\* black and reads nothing.
C28_SampledIffEnabled ==
    \A p \in CoveredPixels : \A i \in Units :
        /\ (last_cover[p].reads[i] # {}) <=> registers.textures[i].enabled
        /\ ~registers.textures[i].enabled =>
              last_cover[p].tex[i] = OpaqueBlack /\ last_cover[p].reads[i] = {}

\* The unit's own wrap modes and sizes applied to its unwrapped s and t.
OwnWrap(p, i) ==
    LET texture == registers.textures[i]
        c == last_cover[p].coords[i]
    IN <<GetWrappedTexCoord(texture.wrap_s, c.s, texture.width, last_tri.undef),
         GetWrappedTexCoord(texture.wrap_t, c.t, texture.height, last_tri.undef)>>

\* C29: at every covered pixel, the coordinates of a unit that is read are
\* wrapped with that unit's own wrap_s / wrap_t and width / height.
C29_OwnWrapAndSize ==
    \A p \in CoveredPixels : \A i \in Units :
        last_cover[p].reads[i] # {} =>
            <<last_cover[p].coords[i].sc, last_cover[p].coords[i].tc>> = OwnWrap(p, i)

\* C30: at every covered pixel the six stages run in register order; stage
\* k > 0 computes its colour and its alpha from the complete combiner_output
\* of stage k - 1 wherever it reads Previous; and the colour written to the
\* pixel is the output of the sixth stage.
C30_StagesInOrder ==
    \A p \in CoveredPixels :
        LET px == last_cover[p]
        IN /\ Len(px.stages) = 6
           /\ \A k \in 2 .. 6 :
                 px.stages[k] = TevStage(registers.tev_stages[k], px.primary, px.tex,
                                         px.stages[k - 1])
           /\ Word(color_buffer, PixelIndex(p[1], p[2]), <<0, 0, 0, 0>>)
                  = PackColor(px.stages[6])

\* A covered pixel shaded by six different stages that each read Previous in
\* the colour and in the alpha combiner, and each change combiner_output.
C30_Witness ==
    /\ registers.tev_stages = ChainStages
    /\ \E p \in CoveredPixels :
          /\ \A k \in 2 .. 6 :
                /\ "Previous" \in {ChainStages[k].color_source[j] : j \in 1 .. 3}
                /\ "Previous" \in {ChainStages[k].alpha_source[j] : j \in 1 .. 3}
                /\ last_cover[p].stages[k].a # last_cover[p].stages[k - 1].a
                /\ <<last_cover[p].stages[k].r, last_cover[p].stages[k].g,
                     last_cover[p].stages[k].b>>
                       # <<last_cover[p].stages[k - 1].r, last_cover[p].stages[k - 1].g,
                           last_cover[p].stages[k - 1].b>>
          /\ Word(color_buffer, PixelIndex(p[1], p[2]), <<0, 0, 0, 0>>)
                 = PackColor(last_cover[p].stages[6])

---------------------------------------------------------------------------
(* Rasterizer: sources, modifiers and operations outside the enumerations   *)

KnownSources == {"PrimaryColor", "Texture0", "Texture1", "Texture2", "Constant", "Previous"}
KnownColorModifiers == {"SourceColor", "SourceAlpha"}
KnownAlphaModifiers == {"SourceAlpha", "OneMinusSourceAlpha"}
KnownOperations == {"Replace", "Modulate", "Add", "Lerp"}

\* The three colour terms and the three alpha terms of a stage, where a term
\* with an unknown source or modifier is 0.
ColorTerms(stage, primary, tex, previous) ==
    [j \in 1 .. 3 |->
        IF stage.color_source[j] \notin KnownSources
           \/ stage.color_modifier[j] \notin KnownColorModifiers
        THEN <<0, 0, 0>>
        ELSE GetColorModifier(stage.color_modifier[j],
                 GetSource(stage.color_source[j], stage, primary, tex, previous))]
AlphaTerms(stage, primary, tex, previous) ==
    [j \in 1 .. 3 |->
        IF stage.alpha_source[j] \notin KnownSources
           \/ stage.alpha_modifier[j] \notin KnownAlphaModifiers
        THEN 0
        ELSE GetAlphaModifier(stage.alpha_modifier[j],
                 GetSource(stage.alpha_source[j], stage, primary, tex, previous).a)]
\* The output of a stage from these terms; an unknown operation gives 0.
StageFromTerms(stage, primary, tex, previous) ==
    LET cr == ColorTerms(stage, primary, tex, previous)
        ar == AlphaTerms(stage, primary, tex, previous)
        rgb(c) == IF stage.color_op \notin KnownOperations THEN 0
                  ELSE Combine(stage.color_op, cr[1][c], cr[2][c], cr[3][c])
    IN Color(rgb(1), rgb(2), rgb(3),
             IF stage.alpha_op \notin KnownOperations THEN 0
             ELSE Combine(stage.alpha_op, ar[1], ar[2], ar[3]))

\* combiner_output before stage k of the pixel record px
PreviousOf(px, k) ==
    IF k = 1 THEN Color(last_tri.undef, last_tri.undef, last_tri.undef, last_tri.undef)
    ELSE px.stages[k - 1]

\* C31: in every stage of every covered pixel, a term whose source or
\* modifier is unknown is 0, an unknown operation makes the stage's colour
\* (or alpha) output 0, and everything else is computed as usual.
C31_UnknownYieldsZero ==
    \A p \in CoveredPixels : \A k \in 1 .. Len(last_cover[p].stages) :
        last_cover[p].stages[k]
            = StageFromTerms(registers.tev_stages[k], last_cover[p].primary,
                             last_cover[p].tex, PreviousOf(last_cover[p], k))

---------------------------------------------------------------------------
(* Rasterizer: the modifiers of the combiner terms                          *)

\* C32: the colour modifier SourceAlpha gives a term r = g = b = the source's
\* alpha and SourceColor gives the source's r, g, b; the alpha modifier
\* SourceAlpha gives a and OneMinusSourceAlpha gives 255 - a.
C32_Modifiers ==
    /\ Returned("GetColorModifier") =>
          /\ fn_call.op = "SourceAlpha" =>
                fn_result[1] = <<fn_call.color.a, fn_call.color.a, fn_call.color.a>>
          /\ fn_call.op = "SourceColor" =>
                fn_result[1] = <<fn_call.color.r, fn_call.color.g, fn_call.color.b>>
    /\ Returned("GetAlphaModifier") =>
          /\ fn_call.op = "SourceAlpha" => fn_result[1] = fn_call.a
          /\ fn_call.op = "OneMinusSourceAlpha" => fn_result[1] = 255 - fn_call.a

---------------------------------------------------------------------------
(* Rasterizer: the width of the edge function                               *)

\* C33: for all points with 16-bit coordinates, the products of orient2d stay
\* within 28 bits signed and neither they nor their difference overflow an
\* int.
C33_NoOverflow ==
    Returned("orient2d") =>
        /\ ~fn_result[1].overflow
        /\ \A i \in 1 .. 2 :
              LET f == CrossFactors(fn_call.vtx1, fn_call.vtx2, fn_call.vtx3)[i]
              IN f[2] = 0 \/ Abs(f[1]) <= (2 ^ 27 - 1) \div Abs(f[2])

---------------------------------------------------------------------------
(* Rasterizer: the divisor of the depth value                               *)

\* int wsum = w0 + w1 + w2 at sample k of the last triangle
Wsum(k) ==
    LET w == EdgeValues(last_tri, SampleX(last_tri, k), SampleY(last_tri, k))
    IN w[1] + w[2] + w[3]

\* C34: at every sample that passes the coverage test, and so has its depth
\* computed and written, wsum is strictly positive.
C34_WsumPositive ==
    num_tris > 0 =>
        \A k \in BoxSamples :
            (SampleInside(k) /\ Writes("SetDepth", SamplePixel(k)[1], SamplePixel(k)[2]) > 0)
                => Wsum(k) > 0

---------------------------------------------------------------------------
(* Rasterizer: where the writes land                                        *)

\* C35: every colour and depth write of ProcessTriangle is at a pixel inside
\* the configured framebuffer.
C35_WritesInsideFramebuffer ==
    \A i \in 1 .. Len(draw_log) :
        /\ draw_log[i].x < registers.framebuffer.width
        /\ draw_log[i].y < registers.framebuffer.height

---------------------------------------------------------------------------
(* Rasterizer: triangles of the opposite winding                            *)

BiasSum(t) == t.bias[1] + t.bias[2] + t.bias[3]

\* C36: a triangle with orient2d(v0, v1, v2) < 0 writes no pixel: at every
\* sample w0 + w1 + w2 is orient2d(v0, v1, v2) plus the three biases, which
\* are <= 0, so some biased edge value is negative.
C36_OppositeWindingInvisible ==
    (num_tris > 0 /\ Winding(last_tri) < 0) =>
        /\ draw_log = <<>>
        /\ \A i \in 1 .. 3 : last_tri.bias[i] <= 0
        /\ \A k \in BoxSamples :
              /\ Wsum(k) = Winding(last_tri) + BiasSum(last_tri)
              /\ ~SampleInside(k)

\* The last triangle has the opposite winding and samples in its bounding
\* box, and drew none of them, one of which an earlier triangle had drawn.
C36_Witness ==
    /\ num_tris = 2
    /\ Winding(last_tri) < 0
    /\ BoxSamples # {}
    /\ draw_log = <<>>
    /\ \E p \in DOMAIN last_cover :
          \E k \in BoxSamples : SamplePixel(k) = p /\ Wsum(k) - BiasSum(last_tri) < 0
============================================================================
